---------------------------- MODULE Spec2Model ----------------------------
(***************************************************************************)
(* A model of the documentation-chunk extraction pipeline of gentle-mcp:   *)
(* the three recognizers (stub file, markdown, command list) and the       *)
(* orchestrator that aggregates their chunks (scripts/parse-all.ts).       *)
(*                                                                         *)
(* Text is modelled character by character: a string is a sequence of      *)
(* one-character strings, a document is one such sequence holding "\n"     *)
(* characters; the regular expressions of the source are patterns that a   *)
(* backtracking matcher runs over these sequences.                         *)
(***************************************************************************)
EXTENDS Naturals, Integers, Sequences, FiniteSets, TLC

VARIABLES
    \* ---- one recognizer invocation (parseUnrealPython / parseMarkdownDocs /
    \* ---- parseUnrealConsole) ----
    fmt,        \* which recognizer runs: "python", "markdown", "console", "none"
    text,       \* the document text read from the input path
    source,     \* the origin tag handed to parseMarkdownDocs
    version,    \* the optional version tag (Undefined when not passed)
    pc,         \* position of the recognizer
    lines,      \* parseUnrealPython: const lines
    classes,    \* parseUnrealPython: const classes
    ci,         \* parseUnrealPython: position of the for-of loop over classes
    chunks,     \* the recognizer's local chunks array
    result,     \* the chunk sequence of the last returned ParserResult
    runs,       \* number of completed runs on this input
    first,      \* the chunk sequence the first run returned
    \* ---- the orchestrator (scripts/parse-all.ts) ----
    opc,        \* position of the script
    tasks,      \* const tasks = discoverSources()
    ti,         \* position of the for-of loop over tasks
    allChunks,  \* const allChunks
    stats,      \* const stats: Record<string, number>
    exitCode,   \* process exit status (-1 while running)
    written,    \* the file data/chunks.json
    log,        \* kinds of the messages written to stdout
    sourcesDir, \* the files of the sources directory, in listing order
    \* ---- the vector store (VectorStore of src/embedder.ts) ----
    db,         \* this.db: "null" or "connected" ("none" while no store exists)
    table,      \* this.table: "null" or "open" ("none" while no store exists)
    storeRows,  \* the rows of the docs table, nearest to the query first
    outcome,    \* the last call on the store: its error, or its results
    initialized, \* history: some call of initialize() has resolved
    \* ---- the embedder (getEmbedder, embedText) and the search tools ----
    embedderInstance, \* let embedderInstance: 0 for null, else the pipeline's number
    initPromise,      \* let initPromise: 0 for null, else the pipeline's number
    pipelines,        \* the promises pipeline() returned, in call order
    calls,            \* the calls of searchBySource and searchAllSources
    toolResult        \* the last value a search tool returned

rvars == <<fmt, text, source, version, pc, lines, classes, ci, chunks, result, runs, first>>
ovars == <<opc, tasks, ti, allChunks, stats, exitCode, written, log, sourcesDir>>
svars == <<db, table, storeRows, outcome, initialized>>
evars == <<embedderInstance, initPromise, pipelines, calls, toolResult>>
vars == <<fmt, text, source, version, pc, lines, classes, ci, chunks, result, runs, first,
          opc, tasks, ti, allChunks, stats, exitCode, written, log, sourcesDir,
          db, table, storeRows, outcome, initialized,
          embedderInstance, initPromise, pipelines, calls, toolResult>>

-----------------------------------------------------------------------------
(* Bounds of the model.                                                    *)

\* Groups of lines in a stub-file document.
MaxPyBlocks == 2
\* Groups of lines in a markdown document.
MaxMdBlocks == 2
\* Lines in a command-list document.
MaxConLines == 2
\* Runs of a recognizer on one input.
MaxRuns == 2
\* Files in the sources directory.
MaxFiles == 2

-----------------------------------------------------------------------------
(* Strings: JavaScript string operations on sequences of characters.       *)

\* JavaScript's undefined, kept distinct from every string of characters.
Undefined == <<"<undefined>">>

LowerSeq == <<"a","b","c","d","e","f","g","h","i","j","k","l","m",
              "n","o","p","q","r","s","t","u","v","w","x","y","z">>
UpperSeq == <<"A","B","C","D","E","F","G","H","I","J","K","L","M",
              "N","O","P","Q","R","S","T","U","V","W","X","Y","Z">>
DigitSeq == <<"0","1","2","3","4","5","6","7","8","9">>

Lower == {LowerSeq[i] : i \in 1..Len(LowerSeq)}
Upper == {UpperSeq[i] : i \in 1..Len(UpperSeq)}
Digit == {DigitSeq[i] : i \in 1..Len(DigitSeq)}
\* \w and \s of a JavaScript regular expression; the characters "." refuses.
WordCh == Lower \cup Upper \cup Digit \cup {"_"}
WS == {" ", "\t", "\n", "\r", "\f"}
LineTerm == {"\n", "\r"}

MinOf(S) == CHOOSE x \in S : \A y \in S : x <= y
MaxOf(S) == CHOOSE x \in S : \A y \in S : x >= y

\* s.slice(a, b) with 0-based a and exclusive b, both within 0..Len(s).
Slice(s, a, b) == IF b <= a THEN <<>> ELSE SubSeq(s, a + 1, b)
SliceFrom(s, a) == Slice(s, a, Len(s))

\* s.trim()
Trim(s) ==
    LET keep == {i \in 1..Len(s) : s[i] \notin WS}
    IN  IF keep = {} THEN <<>> ELSE SubSeq(s, MinOf(keep), MaxOf(keep))

\* s.startsWith(p), s.endsWith(p)
StartsWith(s, p) == Len(s) >= Len(p) /\ SubSeq(s, 1, Len(p)) = p
EndsWith(s, p) == Len(s) >= Len(p) /\ SubSeq(s, Len(s) - Len(p) + 1, Len(s)) = p

\* s.indexOf(p): 0-based position of the first occurrence, -1 when there is none.
IndexOf(s, p) ==
    LET at == {i \in 1..(Len(s) - Len(p) + 1) : SubSeq(s, i, i + Len(p) - 1) = p}
    IN  IF Len(p) > Len(s) \/ at = {} THEN -1 ELSE MinOf(at) - 1

\* s.includes(p)
Includes(s, p) == IndexOf(s, p) # -1

\* s.toLowerCase()
LowerChar(c) ==
    IF c \in Upper THEN LowerSeq[CHOOSE i \in 1..Len(UpperSeq) : UpperSeq[i] = c] ELSE c
ToLowerCase(s) == [i \in 1..Len(s) |-> LowerChar(s[i])]

\* parts.join(sep)
RECURSIVE Join(_, _)
Join(parts, sep) ==
    IF parts = <<>> THEN <<>>
    ELSE IF Len(parts) = 1 THEN parts[1]
    ELSE parts[1] \o sep \o Join(Tail(parts), sep)

\* s.split('\n'): always at least one element.
RECURSIVE SplitFrom(_, _)
SplitFrom(s, start) ==
    LET nl == {i \in start..Len(s) : s[i] = "\n"}
    IN  IF nl = {} THEN <<SubSeq(s, start, Len(s))>>
        ELSE <<SubSeq(s, start, MinOf(nl) - 1)>> \o SplitFrom(s, MinOf(nl) + 1)
Split(s) == SplitFrom(s, 1)

\* s.replaceAll('\r\n', '\n')
ReplaceCRLF(s) ==
    LET keep == SelectSeq([i \in 1..Len(s) |-> i],
                          LAMBDA i : ~(s[i] = "\r" /\ i < Len(s) /\ s[i + 1] = "\n"))
    IN  [k \in 1..Len(keep) |-> s[keep[k]]]

\* String(n) for a natural number n.
RECURSIVE NatToString(_)
NatToString(n) ==
    IF n < 10 THEN <<DigitSeq[n + 1]>>
    ELSE NatToString(n \div 10) \o <<DigitSeq[(n % 10) + 1]>>

\* A string of n copies of the character c.
Repeat(c, n) == [i \in 1..n |-> c]

-----------------------------------------------------------------------------
(* Regular expressions. A pattern is a sequence of nodes; ReM is a         *)
(* backtracking matcher with the priorities of the JavaScript engine:      *)
(* greedy quantifiers try the longest run first, an optional group is      *)
(* tried before it is skipped, alternatives are tried left to right.       *)

Bol == [t |-> "bol"]                                  \* ^
Eol == [t |-> "eol"]                                  \* $
Lit(str) == [t |-> "lit", str |-> str]                \* literal text
In(S) == [t |-> "cls", neg |-> FALSE, set |-> S]      \* [...]
NotIn(S) == [t |-> "cls", neg |-> TRUE, set |-> S]    \* [^...]
Star(c) == [t |-> "rep", cls |-> c, min |-> 0, bounded |-> FALSE, max |-> 0]     \* c*
Plus(c) == [t |-> "rep", cls |-> c, min |-> 1, bounded |-> FALSE, max |-> 0]     \* c+
Between(c, a, b) == [t |-> "rep", cls |-> c, min |-> a, bounded |-> TRUE, max |-> b]  \* c{a,b}
Grp(k, body) == [t |-> "grp", idx |-> k, body |-> body]   \* capturing group k
Opt(body) == [t |-> "opt", body |-> body]                 \* (?:body)?
Alt(alts) == [t |-> "alt", alts |-> alts]                 \* (?:a|b|...)
Close(k, start) == [t |-> "close", idx |-> k, start |-> start]

AnyCh == NotIn(LineTerm)                              \* .

ClsHas(c, ch) == IF c.neg THEN ch \notin c.set ELSE ch \in c.set

\* Number of consecutive characters of class c from 0-based position i on.
ClsRun(s, i, c) ==
    LET stop == {k \in (i + 1)..Len(s) : ~ClsHas(c, s[k])}
    IN  IF i >= Len(s) THEN 0
        ELSE IF stop = {} THEN Len(s) - i ELSE MinOf(stop) - 1 - i

NoCaps == [k \in 1..3 |-> Undefined]
ReFail == [ok |-> FALSE, end |-> 0, g |-> NoCaps]

RECURSIVE ReM(_, _, _, _)
RECURSIVE ReRep(_, _, _, _, _, _)
RECURSIVE ReAlt(_, _, _, _, _, _)

\* The longest run a repetition node n may take at 0-based position i of s.
RepMax(n, s, i) ==
    LET run == ClsRun(s, i, n.cls)
    IN  IF n.bounded /\ n.max < run THEN n.max ELSE run

\* The first match of the node sequence stack at 0-based position i of s, given
\* the captures g made so far. A node whose test fails ends the attempt (OTHER).
ReM(stack, s, i, g) ==
    CASE stack = <<>> -> [ok |-> TRUE, end |-> i, g |-> g]
      [] stack[1].t = "bol" /\ i = 0 -> ReM(Tail(stack), s, i, g)
      [] stack[1].t = "eol" /\ i = Len(s) -> ReM(Tail(stack), s, i, g)
      [] /\ stack[1].t = "lit"
         /\ i + Len(stack[1].str) <= Len(s)
         /\ SubSeq(s, i + 1, i + Len(stack[1].str)) = stack[1].str
            -> ReM(Tail(stack), s, i + Len(stack[1].str), g)
      [] stack[1].t = "cls" /\ i < Len(s) /\ ClsHas(stack[1], s[i + 1])
            -> ReM(Tail(stack), s, i + 1, g)
      [] stack[1].t = "rep"
            -> ReRep(Tail(stack), s, i, g, stack[1].min, RepMax(stack[1], s, i))
      [] stack[1].t = "grp"
            -> ReM(stack[1].body \o <<Close(stack[1].idx, i)>> \o Tail(stack), s, i, g)
      [] stack[1].t = "close"
            -> ReM(Tail(stack), s, i, [g EXCEPT ![stack[1].idx] = Slice(s, stack[1].start, i)])
      [] stack[1].t = "opt"
            -> ReAlt(<<stack[1].body, <<>> >>, 1, Tail(stack), s, i, g)
      [] stack[1].t = "alt" -> ReAlt(stack[1].alts, 1, Tail(stack), s, i, g)
      [] OTHER -> ReFail

\* A greedy repetition that takes k characters, then k - 1, ... down to min.
ReRep(rest, s, i, g, min, k) ==
    IF k < min THEN ReFail
    ELSE LET taken == ReM(rest, s, i + k, g)
         IN  IF taken.ok THEN taken ELSE ReRep(rest, s, i, g, min, k - 1)

\* The alternatives from the a-th on.
ReAlt(alts, a, rest, s, i, g) ==
    IF a > Len(alts) THEN ReFail
    ELSE LET taken == ReM(alts[a] \o rest, s, i, g)
         IN  IF taken.ok THEN taken ELSE ReAlt(alts, a + 1, rest, s, i, g)

\* The match of pattern re starting at the first 0-based position from i on where
\* there is one. A pattern that begins with ^ is tried at position i only.
ReFrom(re, s, i) ==
    LET hits == {k \in i..Len(s) : ReM(re, s, k, NoCaps).ok}
    IN  IF i > Len(s) THEN ReFail
        ELSE IF re[1].t = "bol" THEN ReM(re, s, i, NoCaps)
        ELSE IF hits = {} THEN ReFail
        ELSE ReM(re, s, MinOf(hits), NoCaps)

\* re.exec(s): ok, and the captured groups g[1], g[2], g[3] (Undefined for a group
\* that took no part in the match). re.test(s) is ReExec(re, s).ok.
ReExec(re, s) == ReFrom(re, s, 0)

-----------------------------------------------------------------------------
(* The chunk model: the closed enumerations and the chunk record.          *)

T_class == <<"c","l","a","s","s">>
T_method == <<"m","e","t","h","o","d">>
T_property == <<"p","r","o","p","e","r","t","y">>
T_enum == <<"e","n","u","m">>
T_function == <<"f","u","n","c","t","i","o","n">>
T_api_endpoint == <<"a","p","i","-","e","n","d","p","o","i","n","t">>
T_guide == <<"g","u","i","d","e">>
T_concept == <<"c","o","n","c","e","p","t">>
T_example == <<"e","x","a","m","p","l","e">>
CONSOLE_VARIABLE == <<"c","o","n","s","o","l","e","-","v","a","r","i","a","b","l","e">>
CONSOLE_COMMAND == <<"c","o","n","s","o","l","e","-","c","o","m","m","a","n","d">>
ENUM_TYPE == T_enum
CLASS_TYPE == T_class

SOURCE_NAME == <<"u","n","r","e","a","l","-","p","y","t","h","o","n">>
S_unreal_console == <<"u","n","r","e","a","l","-","c","o","n","s","o","l","e">>
S_pyqt_reference == <<"p","y","q","t","-","r","e","f","e","r","e","n","c","e">>
S_pyqt_tutorials == <<"p","y","q","t","-","t","u","t","o","r","i","a","l","s">>

\* DocSourceSchema and DocTypeSchema: the closed enumerations.
DOC_SOURCES == {SOURCE_NAME, S_unreal_console, S_pyqt_reference, S_pyqt_tutorials}
DOC_TYPES == {T_class, T_method, T_property, T_enum, T_function, CONSOLE_VARIABLE,
              CONSOLE_COMMAND, T_api_endpoint, T_guide, T_concept, T_example}

\* DocChunkSchema: what a chunk must satisfy (z.string().min(1) is a length test).
DocChunkValid(c) ==
    /\ Len(c.id) >= 1
    /\ c.source \in DOC_SOURCES
    /\ c.type \in DOC_TYPES
    /\ Len(c.name) >= 1
    /\ Len(c.content) >= 1

\* A chunk object; a key the object literal does not set is Undefined.
Chunk(id, src, ver, type, name, parentName, signature, content) ==
    [id |-> id, source |-> src, version |-> ver, type |-> type, name |-> name,
     parentName |-> parentName, signature |-> signature, content |-> content]

NL == <<"\n">>
Colon == <<":">>

-----------------------------------------------------------------------------
(* The markdown recognizer (scripts/parsers/markdown.ts).                  *)

\* The heading pattern without the limit of four markers.
MdHeaderReAnyDepth == <<Bol, Grp(1, <<Plus(In({"#"}))>>), Plus(In(WS)),
                        Grp(2, <<Plus(AnyCh)>>), Eol>>

\* /^(#{1,4})\s+(.+)$/
MdHeaderRe == <<Bol, Grp(1, <<Between(In({"#"}), 1, 4)>>), Plus(In(WS)),
                Grp(2, <<Plus(AnyCh)>>), Eol>>

\* /^(get|post|put|delete|patch)\s+\//
EndpointRe == <<Bol, Alt(<<<<Lit(<<"g","e","t">>)>>, <<Lit(<<"p","o","s","t">>)>>,
                           <<Lit(<<"p","u","t">>)>>, <<Lit(<<"d","e","l","e","t","e">>)>>,
                           <<Lit(<<"p","a","t","c","h">>)>>>>),
                Plus(In(WS)), Lit(<<"/">>)>>

\* /^class\s+\w+/
ClassStartRe == <<Bol, Lit(<<"c","l","a","s","s">>), Plus(In(WS)), Plus(In(WordCh))>>

\* detectDocType with the rule of the function titles tried before the rule of classes.
detectDocTypeFunctionFirst(title, content) ==
    LET lowerTitle == ToLowerCase(title)
        lowerContent == ToLowerCase(content)
    IN  IF Includes(lowerTitle, <<"e","n","d","p","o","i","n","t">>) \/ ReExec(EndpointRe, lowerContent).ok
        THEN T_api_endpoint
        ELSE IF Includes(lowerTitle, T_example) \/ Includes(lowerTitle, <<"u","s","a","g","e">>)
        THEN T_example
        ELSE IF Includes(lowerTitle, T_function) \/ Includes(lowerTitle, T_method)
        THEN T_function
        ELSE IF Includes(lowerTitle, T_class) \/ ReExec(ClassStartRe, content).ok
        THEN T_class
        ELSE T_guide

detectDocType(title, content) ==
    LET lowerTitle == ToLowerCase(title)
        lowerContent == ToLowerCase(content)
    IN  IF Includes(lowerTitle, <<"e","n","d","p","o","i","n","t">>) \/ ReExec(EndpointRe, lowerContent).ok
        THEN T_api_endpoint
        ELSE IF Includes(lowerTitle, T_example) \/ Includes(lowerTitle, <<"u","s","a","g","e">>)
        THEN T_example
        ELSE IF Includes(lowerTitle, T_class) \/ ReExec(ClassStartRe, content).ok
        THEN T_class
        ELSE IF Includes(lowerTitle, T_function) \/ Includes(lowerTitle, T_method)
        THEN T_function
        ELSE T_guide

\* The threshold of saveSection: a section is kept when its body is longer.
MinSectionLen == 50

\* let currentSection = null
NoSection == [title |-> Undefined, level |-> 0]

\* A threshold test that keeps a body of exactly MinSectionLen characters.
saveSectionInclusive(sections, currentSection, contentLines) ==
    IF currentSection.title = Undefined \/ Len(contentLines) = 0
    THEN sections
    ELSE LET sectionContent == Trim(Join(contentLines, NL))
         IN  IF Len(sectionContent) < MinSectionLen
             THEN sections
             ELSE Append(sections,
                         [title |-> currentSection.title,
                          level |-> currentSection.level,
                          content |-> sectionContent,
                          type |-> detectDocType(currentSection.title, sectionContent)])

saveSection(sections, currentSection, contentLines) ==
    IF currentSection.title = Undefined \/ Len(contentLines) = 0
    THEN sections
    ELSE LET sectionContent == Trim(Join(contentLines, NL))
         IN  IF Len(sectionContent) <= MinSectionLen
             THEN sections
             ELSE Append(sections,
                         [title |-> currentSection.title,
                          level |-> currentSection.level,
                          content |-> sectionContent,
                          type |-> detectDocType(currentSection.title, sectionContent)])

\* The for-of loop of parseMarkdownSections from line i (1-based) on, and the
\* saveSection call after it.
RECURSIVE MdScan(_, _, _, _, _)
MdScan(ls, i, sections, currentSection, contentLines) ==
    IF i > Len(ls)
    THEN saveSection(sections, currentSection, contentLines)
    ELSE LET headerMatch == ReExec(MdHeaderRe, ls[i])
         IN  IF headerMatch.ok
             THEN MdScan(ls, i + 1,
                         saveSection(sections, currentSection, contentLines),
                         [title |-> Trim(headerMatch.g[2]), level |-> Len(headerMatch.g[1])],
                         <<>>)
             ELSE MdScan(ls, i + 1, sections, currentSection, Append(contentLines, ls[i]))

parseMarkdownSections(content) == MdScan(Split(content), 1, <<>>, NoSection, <<>>)

\* .replaceAll(/[^a-z0-9]+/g, '-') from position i (1-based) on
AlNum == Lower \cup Digit
Collapse(s, i) ==
    LET keep == SelectSeq([k \in 1..Len(s) |-> k],
                          LAMBDA k : /\ k >= i
                                     /\ (s[k] \in AlNum \/ k = 1 \/ s[k - 1] \in AlNum))
    IN  [k \in 1..Len(keep) |-> IF s[keep[k]] \in AlNum THEN s[keep[k]] ELSE "-"]

\* .replaceAll(/^-|-$/g, '')
StripEdgeDashes(s) ==
    LET a == IF Len(s) >= 1 /\ s[1] = "-" THEN Tail(s) ELSE s
    IN  IF Len(a) >= 1 /\ a[Len(a)] = "-" THEN SubSeq(a, 1, Len(a) - 1) ELSE a

\* .slice(0, 64)
SlugMax == 64

sanitizeName(name) ==
    LET t == StripEdgeDashes(Collapse(ToLowerCase(name), 1))
    IN  Slice(t, 0, IF Len(t) < SlugMax THEN Len(t) ELSE SlugMax)

\* The id of the section at 0-based position index of the sections array.
MdChunkIdNoIndex(src, section, index) ==
    src \o Colon \o section.type \o Colon \o sanitizeName(section.title)
MdChunkId(src, section, index) ==
    src \o Colon \o section.type \o Colon \o sanitizeName(section.title)
        \o <<"-">> \o NatToString(index)

MdChunk(src, ver, section, index) ==
    Chunk(MdChunkId(src, section, index), src, ver, section.type, section.title,
          Undefined, Undefined,
          Join(<<<<"#"," ">> \o section.title, <<>>, section.content>>, NL))

\* parseMarkdownDocs(...).chunks, the file's text in place of its path
parseMarkdownDocs(content, src, ver) ==
    LET sections == parseMarkdownSections(content)
    IN  [k \in 1..Len(sections) |-> MdChunk(src, ver, sections[k], k - 1)]

-----------------------------------------------------------------------------
(* The command-list recognizer (scripts/parsers/unreal-console.ts).        *)

\* The dash and the backtick of the heading pattern, each taken as one symbol.
Dash == <<"<dash>">>
Backtick == "<backtick>"
L_ConsoleVariable == <<"C","o","n","s","o","l","e"," ","V","a","r","i","a","b","l","e">>
L_ConsoleCommand == <<"C","o","n","s","o","l","e"," ","C","o","m","m","a","n","d">>

\* /^###\s+BT([^BT]+)BT\s+<dash>\s+(Console Variable|Console Command)/ where BT is
\* the backtick.
ConHeaderRe == <<Bol, Lit(<<"#","#","#">>), Plus(In(WS)), Lit(<<Backtick>>),
                 Grp(1, <<Plus(NotIn({Backtick}))>>), Lit(<<Backtick>>), Plus(In(WS)),
                 Lit(Dash), Plus(In(WS)),
                 Grp(2, <<Alt(<<<<Lit(L_ConsoleVariable)>>, <<Lit(L_ConsoleCommand)>>>>)>>)>>

\* let currentEntry = null
NoEntry == [name |-> Undefined, type |-> Undefined]

\* An entry without description lines is dropped.
saveEntryNonEmpty(entries, currentEntry, descriptionLines) ==
    IF currentEntry.name = Undefined \/ Len(descriptionLines) = 0
    THEN entries
    ELSE Append(entries,
                [name |-> currentEntry.name,
                 type |-> IF currentEntry.type = Undefined THEN CONSOLE_VARIABLE
                          ELSE currentEntry.type,
                 description |-> Trim(Join(descriptionLines, NL))])

saveEntry(entries, currentEntry, descriptionLines) ==
    IF currentEntry.name = Undefined
    THEN entries
    ELSE Append(entries,
                [name |-> currentEntry.name,
                 type |-> IF currentEntry.type = Undefined THEN CONSOLE_VARIABLE
                          ELSE currentEntry.type,
                 description |-> Trim(Join(descriptionLines, NL))])

\* ConScan without the reset of the description lines at an entry heading.
RECURSIVE ConScanNoReset(_, _, _, _, _)
ConScanNoReset(ls, i, entries, currentEntry, descriptionLines) ==
    IF i > Len(ls)
    THEN saveEntry(entries, currentEntry, descriptionLines)
    ELSE LET headerMatch == ReExec(ConHeaderRe, ls[i])
         IN  IF headerMatch.ok
             THEN ConScanNoReset(ls, i + 1,
                                 saveEntry(entries, currentEntry, descriptionLines),
                                 [name |-> headerMatch.g[1],
                                  type |-> IF headerMatch.g[2] = L_ConsoleCommand
                                           THEN CONSOLE_COMMAND ELSE CONSOLE_VARIABLE],
                                 descriptionLines)
             ELSE IF /\ currentEntry # NoEntry
                     /\ Trim(ls[i]) # <<>>
                     /\ ~StartsWith(ls[i], <<"#">>)
             THEN ConScanNoReset(ls, i + 1, entries, currentEntry,
                                 Append(descriptionLines, Trim(ls[i])))
             ELSE ConScanNoReset(ls, i + 1, entries, currentEntry, descriptionLines)

\* The for-of loop of parseConsoleMarkdown from line i (1-based) on, and the
\* saveEntry call after it.
RECURSIVE ConScan(_, _, _, _, _)
ConScan(ls, i, entries, currentEntry, descriptionLines) ==
    IF i > Len(ls)
    THEN saveEntry(entries, currentEntry, descriptionLines)
    ELSE LET headerMatch == ReExec(ConHeaderRe, ls[i])
         IN  IF headerMatch.ok
             THEN ConScan(ls, i + 1,
                          saveEntry(entries, currentEntry, descriptionLines),
                          [name |-> headerMatch.g[1],
                           type |-> IF headerMatch.g[2] = L_ConsoleCommand
                                    THEN CONSOLE_COMMAND ELSE CONSOLE_VARIABLE],
                          <<>>)
             ELSE IF /\ currentEntry # NoEntry
                     /\ Trim(ls[i]) # <<>>
                     /\ ~StartsWith(ls[i], <<"#">>)
             THEN ConScan(ls, i + 1, entries, currentEntry,
                          Append(descriptionLines, Trim(ls[i])))
             ELSE ConScan(ls, i + 1, entries, currentEntry, descriptionLines)

parseConsoleMarkdown(content) == ConScan(Split(content), 1, <<>>, NoEntry, <<>>)

ConChunk(ver, entry) ==
    LET typeLabel == IF entry.type = CONSOLE_COMMAND THEN L_ConsoleCommand
                     ELSE L_ConsoleVariable
    IN  Chunk(S_unreal_console \o Colon \o entry.type \o Colon \o entry.name,
              S_unreal_console, ver, entry.type, entry.name, Undefined, Undefined,
              Join(<<<<"#"," ">> \o entry.name,
                     <<"T","y","p","e",":"," ">> \o typeLabel,
                     <<>>,
                     entry.description>>, NL))

\* parseUnrealConsole(...).chunks, the file's text in place of its path
parseUnrealConsole(content, ver) ==
    LET entries == parseConsoleMarkdown(content)
    IN  [k \in 1..Len(entries) |-> ConChunk(ver, entries[k])]

-----------------------------------------------------------------------------
(* The stub-file recognizer (scripts/parsers/unreal-python.ts).            *)

Marker == <<"\"","\"","\"">>
RawMarker == <<"r","\"","\"","\"">>

\* getLine(lines, index), index 0-based
getLine(ls, index) ==
    IF index < 0 \/ index >= Len(ls) THEN Undefined ELSE ls[index + 1]

\* trimmed.startsWith('r"""') || trimmed.startsWith('"""')
StartsDocstring(line) ==
    StartsWith(Trim(line), RawMarker) \/ StartsWith(Trim(line), Marker)

\* DocBody with the closing line kept whole.
RECURSIVE DocBodyWholeLine(_, _)
DocBodyWholeLine(ls, i) ==
    IF i >= Len(ls) THEN <<>>
    ELSE IF IndexOf(ls[i + 1], Marker) # -1 THEN <<ls[i + 1]>>
    ELSE <<ls[i + 1]>> \o DocBodyWholeLine(ls, i + 1)

\* The lines after the opening line of a multi-line docstring, from 0-based line i:
\* every line up to the first one holding the closing marker, of which the part
\* before the marker is kept.
RECURSIVE DocBody(_, _)
DocBody(ls, i) ==
    IF i >= Len(ls) THEN <<>>
    ELSE LET currentLine == ls[i + 1]
             closeIndex == IndexOf(currentLine, Marker)
         IN  IF closeIndex # -1
             THEN <<Slice(currentLine, 0, closeIndex)>>
             ELSE <<currentLine>> \o DocBody(ls, i + 1)

\* extractDocstring(lines, startIndex).docstring
extractDocstring(ls, startIndex) ==
    LET line == getLine(ls, startIndex)
        trimmed == Trim(line)
        startMarker == IF StartsWith(trimmed, RawMarker) THEN RawMarker ELSE Marker
    IN  IF line = Undefined THEN <<>>
        ELSE IF ~StartsWith(trimmed, RawMarker) /\ ~StartsWith(trimmed, Marker) THEN <<>>
        ELSE IF EndsWith(trimmed, Marker) /\ Len(trimmed) > Len(startMarker) + 3
        THEN Trim(Slice(trimmed, Len(startMarker), Len(trimmed) - 3))
        ELSE Trim(Join(<<SliceFrom(trimmed, Len(startMarker))>> \o DocBody(ls, startIndex + 1), NL))

\* extractDocstring(lines, startIndex).endIndex
RECURSIVE DocEnd(_, _, _)
DocEnd(ls, i, endIndex) ==
    IF i >= Len(ls) THEN endIndex
    ELSE IF IndexOf(ls[i + 1], Marker) # -1 THEN i
    ELSE DocEnd(ls, i + 1, i)
extractDocstringEnd(ls, startIndex) ==
    LET line == getLine(ls, startIndex)
        trimmed == Trim(line)
        startMarker == IF StartsWith(trimmed, RawMarker) THEN RawMarker ELSE Marker
    IN  IF line = Undefined THEN startIndex
        ELSE IF ~StartsWith(trimmed, RawMarker) /\ ~StartsWith(trimmed, Marker) THEN startIndex
        ELSE IF EndsWith(trimmed, Marker) /\ Len(trimmed) > Len(startMarker) + 3
        THEN startIndex
        ELSE DocEnd(ls, startIndex + 1, startIndex)

\* The test that guards every call of extractDocstring:
\*   x !== undefined && (x.trim().startsWith('r"""') || x.trim().startsWith('"""'))
\* for x = getLine(lines, index). "throw" is the TypeError of calling trim on
\* undefined.
DocstringFollowsUnguarded(ls, index) ==
    IF getLine(ls, index) = Undefined THEN "throw"
    ELSE IF StartsDocstring(getLine(ls, index)) THEN "yes" ELSE "no"
DocstringFollows(ls, index) ==
    IF getLine(ls, index) = Undefined THEN "no"
    ELSE IF StartsDocstring(getLine(ls, index)) THEN "yes" ELSE "no"

\* The docstring of the declaration whose next line is line index.
DocstringAt(ls, index) ==
    IF DocstringFollows(ls, index) = "yes" THEN extractDocstring(ls, index) ELSE <<>>

\* /\*\*Key\*\*:\s*(\S+)/ for key = "**Key**:"
KeyRe(key) == <<Lit(key), Star(In(WS)), Grp(1, <<Plus(NotIn(WS))>>)>>

\* KeyRe(key).exec(docstring)?.[1]
KeyValue(docstring, key) == ReExec(KeyRe(key), docstring).g[1]

extractCppSource(docstring) ==
    LET pluginMatch == KeyValue(docstring, <<"*","*","P","l","u","g","i","n","*","*",":">>)
        moduleMatch == KeyValue(docstring, <<"*","*","M","o","d","u","l","e","*","*",":">>)
        fileMatch == KeyValue(docstring, <<"*","*","F","i","l","e","*","*",":">>)
        parts == (IF pluginMatch # Undefined
                  THEN <<<<"P","l","u","g","i","n",":"," ">> \o pluginMatch>> ELSE <<>>)
              \o (IF moduleMatch # Undefined
                  THEN <<<<"M","o","d","u","l","e",":"," ">> \o moduleMatch>> ELSE <<>>)
              \o (IF fileMatch # Undefined
                  THEN <<<<"F","i","l","e",":"," ">> \o fileMatch>> ELSE <<>>)
    IN  Join(parts, <<","," ">>)

\* /^\s+([A-Z_][A-Z0-9_]*)\s*:\s*\w+\s*=\s*\.\.\.\s*#:\s*(?:\d+:\s*)?(.+)$/
EnumRe == <<Bol, Plus(In(WS)),
            Grp(1, <<In(Upper \cup {"_"}), Star(In(Upper \cup Digit \cup {"_"}))>>),
            Star(In(WS)), Lit(<<":">>), Star(In(WS)), Plus(In(WordCh)), Star(In(WS)),
            Lit(<<"=">>), Star(In(WS)), Lit(<<".",".",".">>), Star(In(WS)),
            Lit(<<"#",":">>), Star(In(WS)),
            Opt(<<Plus(In(Digit)), Lit(<<":">>), Star(In(WS))>>),
            Grp(2, <<Plus(AnyCh)>>), Eol>>

\* extractEnumValues(lines, startLine, endLine) from 0-based line i on
RECURSIVE extractEnumValues(_, _, _)
extractEnumValues(ls, i, endLine) ==
    IF ~(i < endLine /\ i < Len(ls)) THEN <<>>
    ELSE LET match == ReExec(EnumRe, ls[i + 1])
         IN  (IF match.ok
              THEN <<[name |-> match.g[1], description |-> Trim(match.g[2])]>>
              ELSE <<>>)
             \o extractEnumValues(ls, i + 1, endLine)

\* findClassEnd(lines, startLine)
findClassEnd(ls, startLine) ==
    LET next == {i \in (startLine + 1)..(Len(ls) - 1) : ReExec(ClassStartRe, ls[i + 1]).ok}
    IN  IF next = {} THEN Len(ls) ELSE MinOf(next)

\* /^class\s+(\w+)(?:\(([^)]*)\))?:/
PyClassRe == <<Bol, Lit(<<"c","l","a","s","s">>), Plus(In(WS)), Grp(1, <<Plus(In(WordCh))>>),
               Opt(<<Lit(<<"(">>), Grp(2, <<Star(NotIn({")"}))>>), Lit(<<")">>)>>),
               Lit(<<":">>)>>

\* classMatch[2]?.split(',')[0]?.trim() ?? null, null being Undefined here
ParentOf(g2) ==
    IF g2 = Undefined THEN Undefined
    ELSE Trim(IF IndexOf(g2, <<",">>) = -1 THEN g2 ELSE Slice(g2, 0, IndexOf(g2, <<",">>)))

EnumBase == <<"E","n","u","m","B","a","s","e">>

\* The ClassInfo pushed for a class declaration on 0-based line i.
ClassInfoAt(ls, i) ==
    LET classMatch == ReExec(PyClassRe, ls[i + 1])
        parentClass == ParentOf(classMatch.g[2])
        docstring == DocstringAt(ls, i + 1)
    IN  [name |-> classMatch.g[1],
         parent |-> parentClass,
         docstring |-> docstring,
         cppSource |-> extractCppSource(docstring),
         isEnum |-> parentClass = EnumBase,
         lineNumber |-> i,
         endLine |-> findClassEnd(ls, i)]

\* The outcome of a loop whose iteration pushes item and whose later iterations
\* have the outcome rest.
Pushed(item, rest) == [threw |-> rest.threw, val |-> <<item>> \o rest.val]

\* parseClasses(lines) from 0-based line i on. threw: a TypeError escaped.
RECURSIVE ClassScan(_, _)
ClassScan(ls, i) ==
    CASE i >= Len(ls) -> [threw |-> FALSE, val |-> <<>>]
      [] ~ReExec(PyClassRe, ls[i + 1]).ok -> ClassScan(ls, i + 1)
      [] DocstringFollows(ls, i + 1) = "throw" -> [threw |-> TRUE, val |-> <<>>]
      [] OTHER -> Pushed(ClassInfoAt(ls, i), ClassScan(ls, i + 1))

parseClasses(ls) == ClassScan(ls, 0)

NameStart == Lower \cup {"_"}
NameCh == Lower \cup Digit \cup {"_"}

\* /^[ ]{4}def\s+([a-z_][a-z0-9_]*)\s*\(([^)]*)\)\s*(?:->\s*([^:]+))?:/
MethodRe == <<Bol, Between(In({" "}), 4, 4), Lit(<<"d","e","f">>), Plus(In(WS)),
              Grp(1, <<In(NameStart), Star(In(NameCh))>>), Star(In(WS)),
              Lit(<<"(">>), Grp(2, <<Star(NotIn({")"}))>>), Lit(<<")">>), Star(In(WS)),
              Opt(<<Lit(<<"-",">">>), Star(In(WS)), Grp(3, <<Plus(NotIn({":"}))>>)>>),
              Lit(<<":">>)>>

\* /^[ ]{4}def\s+([a-z_][a-z0-9_]*)\s*\(self\)\s*->\s*([^:]+):/
PropRe == <<Bol, Between(In({" "}), 4, 4), Lit(<<"d","e","f">>), Plus(In(WS)),
            Grp(1, <<In(NameStart), Star(In(NameCh))>>), Star(In(WS)),
            Lit(<<"(","s","e","l","f",")">>), Star(In(WS)), Lit(<<"-",">">>), Star(In(WS)),
            Grp(2, <<Plus(NotIn({":"}))>>), Lit(<<":">>)>>

\* The dunder methods that are kept.
KeptDunders == {<<"_","_","i","n","i","t","_","_">>, <<"_","_","e","n","t","e","r","_","_">>,
                <<"_","_","e","x","i","t","_","_">>}

\* processMethodLine without the test of the name for a leading underscore.
processMethodLineUnfiltered(line, classInfo, ls, lineIndex, isClassMethod, isStatic) ==
    LET methodMatch == ReExec(MethodRe, line)
        methodName == methodMatch.g[1]
        params == methodMatch.g[2]
        returnType == IF methodMatch.g[3] = Undefined THEN <<"N","o","n","e">>
                      ELSE Trim(methodMatch.g[3])
        none == [name |-> <<>>, className |-> <<>>, signature |-> <<>>, docstring |-> <<>>,
                 isClassMethod |-> FALSE, isStatic |-> FALSE]
    IN  IF ~methodMatch.ok THEN [kind |-> "null", info |-> none]
        ELSE IF DocstringFollows(ls, lineIndex + 1) = "throw"
        THEN [kind |-> "throw", info |-> none]
        ELSE [kind |-> "method",
              info |-> [name |-> methodName,
                        className |-> classInfo.name,
                        signature |-> methodName \o <<"(">> \o params
                                      \o <<")"," ","-",">"," ">> \o returnType,
                        docstring |-> DocstringAt(ls, lineIndex + 1),
                        isClassMethod |-> isClassMethod,
                        isStatic |-> isStatic]]

\* processMethodLine(line, classInfo, lines, lineIndex, isClassMethod, isStatic):
\* [kind |-> "null"], [kind |-> "throw"] or [kind |-> "method", info |-> MethodInfo]
processMethodLine(line, classInfo, ls, lineIndex, isClassMethod, isStatic) ==
    LET methodMatch == ReExec(MethodRe, line)
        methodName == methodMatch.g[1]
        params == methodMatch.g[2]
        returnType == IF methodMatch.g[3] = Undefined THEN <<"N","o","n","e">>
                      ELSE Trim(methodMatch.g[3])
        none == [name |-> <<>>, className |-> <<>>, signature |-> <<>>, docstring |-> <<>>,
                 isClassMethod |-> FALSE, isStatic |-> FALSE]
    IN  IF ~methodMatch.ok THEN [kind |-> "null", info |-> none]
        ELSE IF StartsWith(methodName, <<"_">>) /\ methodName \notin KeptDunders
        THEN [kind |-> "null", info |-> none]
        ELSE IF DocstringFollows(ls, lineIndex + 1) = "throw"
        THEN [kind |-> "throw", info |-> none]
        ELSE [kind |-> "method",
              info |-> [name |-> methodName,
                        className |-> classInfo.name,
                        signature |-> methodName \o <<"(">> \o params
                                      \o <<")"," ","-",">"," ">> \o returnType,
                        docstring |-> DocstringAt(ls, lineIndex + 1),
                        isClassMethod |-> isClassMethod,
                        isStatic |-> isStatic]]

\* The for loop of parseMethods from 0-based line i on, with the two decorator
\* flags as they stand on entry to that iteration.
RECURSIVE MethodScan(_, _, _, _, _)
MethodScan(ls, classInfo, i, isClassMethod, isStatic) ==
    CASE ~(i < classInfo.endLine /\ i < Len(ls)) -> [threw |-> FALSE, val |-> <<>>]
      [] Trim(ls[i + 1]) = <<"@","c","l","a","s","s","m","e","t","h","o","d">>
            -> MethodScan(ls, classInfo, i + 1, TRUE, isStatic)
      [] Trim(ls[i + 1]) = <<"@","s","t","a","t","i","c","m","e","t","h","o","d">>
            -> MethodScan(ls, classInfo, i + 1, isClassMethod, TRUE)
      [] processMethodLine(ls[i + 1], classInfo, ls, i, isClassMethod, isStatic).kind = "null"
            -> MethodScan(ls, classInfo, i + 1, FALSE, FALSE)
      [] processMethodLine(ls[i + 1], classInfo, ls, i, isClassMethod, isStatic).kind = "throw"
            -> [threw |-> TRUE, val |-> <<>>]
      [] OTHER
            -> Pushed(processMethodLine(ls[i + 1], classInfo, ls, i, isClassMethod, isStatic).info,
                      MethodScan(ls, classInfo, i + 1, FALSE, FALSE))

parseMethods(ls, classInfo) == MethodScan(ls, classInfo, classInfo.lineNumber, FALSE, FALSE)

\* checkHasSetter searching to the end of the file.
checkHasSetterAnywhere(ls, startIndex, endIndex, propName) ==
    \E j \in startIndex..(Len(ls) - 1) :
        /\ getLine(ls, j) # Undefined
        /\ Includes(getLine(ls, j), <<"@">> \o propName \o <<".","s","e","t","t","e","r">>)

\* checkHasSetter(lines, startIndex, endIndex, propName)
checkHasSetter(ls, startIndex, endIndex, propName) ==
    \E j \in startIndex..(endIndex - 1) :
        /\ getLine(ls, j) # Undefined
        /\ Includes(getLine(ls, j), <<"@">> \o propName \o <<".","s","e","t","t","e","r">>)

\* The forward window of the setter search, in lines.
SetterWindow == 20

\* The PropertyInfo pushed for the decorator on 0-based line i.
PropertyInfoAt(ls, classInfo, i) ==
    LET propMatch == ReExec(PropRe, getLine(ls, i + 1))
        window == IF i + SetterWindow < classInfo.endLine THEN i + SetterWindow
                  ELSE classInfo.endLine
    IN  [name |-> propMatch.g[1],
         className |-> classInfo.name,
         type |-> Trim(propMatch.g[2]),
         docstring |-> DocstringAt(ls, i + 2),
         readonly |-> ~checkHasSetter(ls, i + 1, window, propMatch.g[1])]

\* The for loop of parseProperties from 0-based line i on.
RECURSIVE PropertyScan(_, _, _)
PropertyScan(ls, classInfo, i) ==
    CASE ~(i < classInfo.endLine /\ i < Len(ls)) -> [threw |-> FALSE, val |-> <<>>]
      [] Trim(ls[i + 1]) # <<"@","p","r","o","p","e","r","t","y">>
            -> PropertyScan(ls, classInfo, i + 1)
      [] getLine(ls, i + 1) = Undefined -> PropertyScan(ls, classInfo, i + 1)
      [] ~ReExec(PropRe, getLine(ls, i + 1)).ok -> PropertyScan(ls, classInfo, i + 1)
      [] DocstringFollows(ls, i + 2) = "throw" -> [threw |-> TRUE, val |-> <<>>]
      [] OTHER -> Pushed(PropertyInfoAt(ls, classInfo, i), PropertyScan(ls, classInfo, i + 1))

parseProperties(ls, classInfo) == PropertyScan(ls, classInfo, classInfo.lineNumber)

CppMarker == <<"*","*","C","+","+"," ","S","o","u","r","c","e",":","*","*">>

\* docstring.replaceAll(/\*\*C\+\+ Source:\*\*[\s\S]*?(?=\n\n|\*\*|$)/g, '') : each
\* occurrence of the marker is removed with what follows it up to the next blank
\* line, the next "**" or the end.
RECURSIVE RemoveCppSource(_)
RemoveCppSource(doc) ==
    LET at == IndexOf(doc, CppMarker)
        from == at + Len(CppMarker)
        stops == {k \in from..Len(doc) :
                     \/ k = Len(doc)
                     \/ StartsWith(SliceFrom(doc, k), <<"\n","\n">>)
                     \/ StartsWith(SliceFrom(doc, k), <<"*","*">>)}
    IN  IF at = -1 THEN doc
        ELSE Slice(doc, 0, at) \o RemoveCppSource(SliceFrom(doc, MinOf(stops)))

\* The "  NAME: description" lines of an enumeration.
EnumValueLines(enumValues) ==
    [k \in 1..Len(enumValues) |->
        <<" "," ">> \o enumValues[k].name \o <<":"," ">> \o enumValues[k].description]

createClassChunk(classInfo, ls) ==
    LET cleanDoc == Trim(RemoveCppSource(classInfo.docstring))
        enumValues == extractEnumValues(ls, classInfo.lineNumber, classInfo.endLine)
        contentParts ==
            <<<<"#"," ">> \o classInfo.name>>
            \o (IF classInfo.parent # Undefined
                THEN <<<<"I","n","h","e","r","i","t","s"," ","f","r","o","m",":"," ">>
                       \o classInfo.parent>>
                ELSE <<>>)
            \o (IF classInfo.cppSource # <<>>
                THEN <<<<"C","+","+"," ","S","o","u","r","c","e",":"," ">>
                       \o classInfo.cppSource>>
                ELSE <<>>)
            \o << <<>> >>
            \o (IF cleanDoc # <<>> THEN <<cleanDoc>> ELSE <<>>)
            \o (IF classInfo.isEnum /\ Len(enumValues) > 0
                THEN << <<>>, <<"V","a","l","u","e","s",":">> >> \o EnumValueLines(enumValues)
                ELSE <<>>)
        chunkType == IF classInfo.isEnum THEN ENUM_TYPE ELSE CLASS_TYPE
    IN  Chunk(SOURCE_NAME \o Colon \o chunkType \o Colon \o classInfo.name,
              SOURCE_NAME, Undefined, chunkType, classInfo.name, Undefined, Undefined,
              Join(contentParts, NL))

createMethodChunk(method) ==
    LET contentParts ==
            <<<<"#"," ">> \o method.className \o <<".">> \o method.name,
              <<>>,
              <<"S","i","g","n","a","t","u","r","e",":"," ">> \o method.signature>>
            \o (IF method.isClassMethod
                THEN <<<<"T","y","p","e",":"," ","c","l","a","s","s","m","e","t","h","o","d">>>>
                ELSE IF method.isStatic
                THEN <<<<"T","y","p","e",":"," ","s","t","a","t","i","c","m","e","t","h","o","d">>>>
                ELSE <<>>)
            \o (IF method.docstring # <<>> THEN << <<>>, method.docstring >> ELSE <<>>)
    IN  Chunk(SOURCE_NAME \o Colon \o T_method \o Colon \o method.className \o <<".">> \o method.name,
              SOURCE_NAME, Undefined, T_method, method.name, method.className,
              method.signature, Join(contentParts, NL))

createPropertyChunk(prop) ==
    LET rwStatus == IF prop.readonly THEN <<"[","R","e","a","d","-","O","n","l","y","]">>
                    ELSE <<"[","R","e","a","d","-","W","r","i","t","e","]">>
        contentParts ==
            <<<<"#"," ">> \o prop.className \o <<".">> \o prop.name,
              <<>>,
              <<"T","y","p","e",":"," ">> \o prop.type \o <<" ">> \o rwStatus>>
            \o (IF prop.docstring # <<>> THEN << <<>>, prop.docstring >> ELSE <<>>)
    IN  Chunk(SOURCE_NAME \o Colon \o T_property \o Colon \o prop.className \o <<".">> \o prop.name,
              SOURCE_NAME, Undefined, T_property, prop.name, prop.className,
              Undefined, Join(contentParts, NL))

\* The assignment left out.
WithoutVersion(chunk, ver) == chunk

\* chunk.version = version
WithVersion(chunk, ver) == [chunk EXCEPT !.version = ver]

-----------------------------------------------------------------------------
(* Input documents.                                                        *)

\* All sequences over S of length at most n.
SeqsUpTo(S, n) == UNION {[1..k -> S] : k \in 0..n}

RECURSIVE Flatten(_)
Flatten(ss) == IF ss = <<>> THEN <<>> ELSE ss[1] \o Flatten(Tail(ss))

\* Stub-file documents are made of these groups of lines.
PyClassA == <<"c","l","a","s","s"," ","A",":">>
PyEnumE == <<"c","l","a","s","s"," ","E","(","E","n","u","m","B","a","s","e",")",":">>
PyGetter == <<" "," "," "," ","d","e","f"," ","f","o","o","(","s","e","l","f",")"," ","-",">"," ","i","n","t",":">>
PySetter == <<" "," "," "," ","d","e","f"," ","f","o","o","(","s","e","l","f",","," ","v",":"," ","i","n","t",")"," ","-",">"," ","N","o","n","e",":">>
PyAtProperty == <<" "," "," "," ","@","p","r","o","p","e","r","t","y">>
PyAtSetter == <<" "," "," "," ","@","f","o","o",".","s","e","t","t","e","r">>
PyAtStatic == <<" "," "," "," ","@","s","t","a","t","i","c","m","e","t","h","o","d">>
PyDoc == <<" "," "," "," ","\"","\"","\"","D","o","c",".","\"","\"","\"">>
PyDocOpen == <<" "," "," "," ","\"","\"","\"","O","p","e","n">>
PyDocRaw == <<" "," "," "," ","r","\"","\"","\"","R","a","w",".","\"","\"","\"">>
PyClassPriv == <<"c","l","a","s","s"," ","_","P",":">>
PyEnumPriv == <<"c","l","a","s","s"," ","_","E","(","E","n","u","m","B","a","s","e",")",":">>
PyBar == <<" "," "," "," ","d","e","f"," ","b","a","r","(","x",":"," ","i","n","t",")"," ","-",">"," ","s","t","r",":">>
PyMember == <<" "," "," "," ","R","E","D",":"," ","E"," ","="," ",".",".","."," ","#",":"," ","0",":"," ","t","h","e"," ","c","o","l","o","r"," ","r","e","d">>
PyMemberPlain == <<" "," "," "," ","B","L","U","E",":"," ","E"," ","="," ",".",".","."," ","#",":"," ","b","l","u","e">>

PyBlocks == {<<PyClassA>>, <<PyEnumE>>, <<PyClassA, PyGetter>>,
             <<PyClassA, PyAtProperty, PyGetter>>, <<PyGetter>>,
             <<PyAtSetter, PySetter>>, <<PyAtStatic>>, <<PyDoc>>, <<PyDocOpen>>,
             <<PyAtProperty>>, <<PyClassPriv>>, <<PyEnumPriv, PyMember>>,
             <<PyAtStatic, PyBar>>, <<PyBar>>, <<PyMember, PyMemberPlain>>, <<PyDocRaw>>}

\* A column-0 line that starts like a class declaration and is none: the first line of
\* a declaration whose parents are listed on the lines after it.
PyClassOpen == <<"c","l","a","s","s"," ","B","(">>

\* Declarations of a private method, of a dunder method outside the allow-list and of
\* the initializer.
PyHidden == <<" "," "," "," ","d","e","f"," ","_","h","i","d","(","s","e","l","f",")"," ","-",">"," ","i","n","t",":">>
PyStr == <<" "," "," "," ","d","e","f"," ","_","_","s","t","r","_","_","(","s","e","l","f",")"," ","-",">"," ","s","t","r",":">>
PyInit == <<" "," "," "," ","d","e","f"," ","_","_","i","n","i","t","_","_","(","s","e","l","f",")"," ","-",">"," ","N","o","n","e",":">>

PyAtClass == <<" "," "," "," ","@","c","l","a","s","s","m","e","t","h","o","d">>

\* A class with a property whose setter follows after n blank lines.
PySetterAfter(n) ==
    <<PyClassA, PyAtProperty, PyGetter>> \o [k \in 1..n |-> <<>>] \o <<PyAtSetter, PySetter>>

\* Lines of multi-line docstrings: a body line, a closing line with text on both
\* sides of the marker, a closing line of the marker alone, a raw opening line.
PyMore == <<" "," "," "," ","m","o","r","e"," ","t","e","x","t">>
PyCloseTail == <<" "," "," "," ","e","n","d",".","\"","\"","\""," ","t","a","i","l">>
PyCloseBare == <<" "," "," "," ","\"","\"","\"">>
PyDocRawOpen == <<" "," "," "," ","r","\"","\"","\"","R","a","w">>

\* Stub files written out line by line.
PyCases == {<<PyClassA, PyDocOpen, PyMore, PyCloseTail, PyBar, PyDocOpen, PyMore, PyCloseBare,
              PyGetter>>,
            <<PyClassA, PyBar, PyDocRawOpen, PyMore>>,
            <<PyClassA, PyDocOpen, PyMore, PyBar>>,
            PySetterAfter(SetterWindow - 3), PySetterAfter(SetterWindow - 2),
            <<PyClassA, PyAtProperty, PyGetter, PyEnumE, PyAtSetter, PySetter>>,
            <<PyClassA, PyAtProperty, PyGetter, PyClassA, PyAtSetter, PySetter>>,
            <<PyClassA, PyAtClass, PyAtStatic, PyBar, PyGetter>>,
            <<PyClassA, PyAtStatic, PyAtClass, PyBar>>,
            <<PyClassA, PyAtStatic, <<>>, PyBar, PyAtClass, PyGetter>>,
            <<PyClassA, PyGetter, PyClassOpen, PyBar>>,
            <<PyClassA, PyClassOpen, PyBar, PyEnumE, PyMember>>,
            <<PyClassA, PyHidden, PyInit, PyStr, PyBar>>}

PyTexts == {Join(Flatten(bs), NL) : bs \in SeqsUpTo(PyBlocks, MaxPyBlocks)}
           \cup {Join(ls, NL) : ls \in PyCases}

\* Markdown documents are made of these lines.
MdIntro == <<"#"," ","I","n","t","r","o">>
MdBlankTitle == <<"#"," "," ">>
MdUsage == <<"#"," ","U","s","a","g","e">>
MdShort == <<"s","h","o","r","t"," ","b","o","d","y">>
MdLong == Repeat("x", 60)
MdExact == Repeat("x", 50)

MdBlocks == {<<MdIntro, MdLong>>, <<MdUsage, MdLong>>, <<MdBlankTitle, MdLong>>,
             <<MdIntro, MdShort>>, <<MdLong>>, <<MdIntro>>, << <<>> >>,
             <<MdUsage, MdExact>>, <<MdShort>>}

\* A line of five markers, a heading of four, and markers without whitespace after them.
MdDeep == <<"#","#","#","#","#"," ","D","e","e","p">>
MdSub == <<"#","#","#","#"," ","S","u","b">>
MdNoSpace == <<"#","N","o","S","p","a","c","e">>

\* Headings whose words belong to several types, and first lines of bodies: a request
\* line, a verb without a path, a class declaration, a word that begins with "class".
MdClassUsage == <<"#"," ","C","l","a","s","s"," ","U","s","a","g","e">>
MdEndpointExample == <<"#"," ","E","n","d","p","o","i","n","t"," ","e","x","a","m","p","l","e">>
MdMethodTitle == <<"#"," ","M","e","t","h","o","d">>
MdFunctionTitle == <<"#"," ","F","u","n","c","t","i","o","n">>
MdVerbPath == <<"G","E","T"," ","/","i","t","e","m","s">>
MdVerbNoPath == <<"g","e","t"," ","i","t","e","m","s"," ","/">>
MdClassDecl == <<"c","l","a","s","s"," ","F","o","o">>
MdClassy == <<"c","l","a","s","s","y">>

\* Headings for the slug: a title of SlugMax - 1 letters, a blank and more letters; a
\* title of punctuation only; a title with runs of punctuation at both ends.
MdLongTitle == <<"#"," ">> \o Repeat("a", SlugMax - 1) \o <<" ","b","c">>
MdPunctTitle == <<"#"," ","!","!","!">>
MdEdgeTitle == <<"#"," ","-","-"," ","A"," "," ","&"," "," ","b","9"," ","-","-">>

\* Markdown documents written out line by line.
MdCases == {<<MdLong, MdIntro, MdDeep, MdLong, MdSub, MdLong, MdNoSpace>>,
            <<MdIntro, <<>>, MdLong, <<>>, MdUsage, MdLong, MdDeep>>,
            <<MdClassUsage, MdLong, MdEndpointExample, MdLong>>,
            <<MdUsage, MdVerbPath, MdLong, MdMethodTitle, MdClassDecl, MdLong>>,
            <<MdFunctionTitle, MdLong, MdIntro, MdVerbNoPath, MdLong, MdMethodTitle, MdClassy,
              MdLong>>,
            <<MdLongTitle, MdLong, MdPunctTitle, MdLong, MdEdgeTitle, MdLong>>}

MdTexts == {Join(Flatten(bs), NL) : bs \in SeqsUpTo(MdBlocks, MaxMdBlocks)}
           \cup {Join(ls, NL) : ls \in MdCases}

\* Command-list documents are made of these lines.
ConVar == <<"#","#","#"," ",Backtick,"r",".","F","o","o",Backtick," ","<dash>"," ",
            "C","o","n","s","o","l","e"," ","V","a","r","i","a","b","l","e">>
ConCmd == <<"#","#","#"," ",Backtick,"r",".","F","o","o",Backtick," ","<dash>"," ",
            "C","o","n","s","o","l","e"," ","C","o","m","m","a","n","d">>
ConText == <<"S","e","t","s"," ","f","o","o",".">>
ConNote == <<"#"," ","N","o","t","e">>

ConLines == {ConVar, ConCmd, ConText, ConNote, <<>>}

\* A second entry heading, a second text line and an indented one.
ConCmdBar == <<"#","#","#"," ",Backtick,"r",".","B","a","r",Backtick," ","<dash>"," ",
               "C","o","n","s","o","l","e"," ","C","o","m","m","a","n","d">>
ConOther == <<"O","t","h","e","r",".">>
ConIndented == <<" "," ","I","n","d","e","n","t","e","d"," ","t","e","x","t","."," "," ">>

\* Command-list documents written out line by line.
ConCases == {<<ConText, ConVar, ConText, <<>>, ConOther, ConNote, ConCmdBar, ConOther,
               ConIndented>>,
             <<ConOther, ConNote, ConIndented, ConVar, ConCmdBar, ConText>>}

ConTexts == {Join(ls, NL) : ls \in SeqsUpTo(ConLines, MaxConLines)}
            \cup {Join(ls, NL) : ls \in ConCases}

V56 == <<"5",".","6">>
Versions == {Undefined, V56}

-----------------------------------------------------------------------------
(* One recognizer invocation, and its repetition on the same input.        *)

\* The orchestrator, while only a recognizer is run.
OrchIdle ==
    /\ opc = "idle"
    /\ sourcesDir = <<>>
    /\ tasks = <<>>
    /\ ti = 0
    /\ allChunks = <<>>
    /\ stats = <<>>
    /\ exitCode = -1
    /\ written = [state |-> "absent", chunks |-> <<>>]
    /\ log = <<>>

\* No call on the store.
NoCall == [call |-> "none", error |-> <<>>, results |-> <<>>, queried |-> FALSE]

\* No search tool has returned.
NoToolResult ==
    [tool |-> "none", limit |-> 0, sourceFilter |-> <<>>, found |-> <<>>,
     output |-> [results |-> <<>>, totalResults |-> 0]]

\* Nothing has called getEmbedder: both module variables are null.
EmbedIdle ==
    /\ embedderInstance = 0
    /\ initPromise = 0
    /\ pipelines = <<>>
    /\ calls = <<>>
    /\ toolResult = NoToolResult

\* No vector store exists while a recognizer or the orchestrator runs.
StoreIdle ==
    /\ db = "none"
    /\ table = "none"
    /\ storeRows = <<>>
    /\ outcome = NoCall
    /\ initialized = FALSE
    /\ EmbedIdle

Init ==
    /\ \/ fmt = "python" /\ text \in PyTexts /\ source = SOURCE_NAME
       \/ fmt = "markdown" /\ text \in MdTexts /\ source \in {S_pyqt_reference, S_pyqt_tutorials}
       \/ fmt = "console" /\ text \in ConTexts /\ source = S_unreal_console
    /\ version \in Versions
    /\ pc = "start"
    /\ lines = <<>>
    /\ classes = <<>>
    /\ ci = 0
    /\ chunks = <<>>
    /\ result = <<>>
    /\ runs = 0
    /\ first = <<>>
    /\ OrchIdle
    /\ StoreIdle

\* const chunks: DocChunk[] = []
StaleChunks == chunks
FreshChunks == <<>>

\* parseUnrealPython up to its for-of loop: the text is split into lines and the
\* classes are parsed.
PyRead ==
    /\ fmt = "python" /\ pc = "start"
    /\ lines' = Split(ReplaceCRLF(text))
    /\ LET parsed == parseClasses(lines')
       IN  /\ classes' = parsed.val
           /\ pc' = IF parsed.threw THEN "threw" ELSE "loop"
    /\ chunks' = FreshChunks
    /\ ci' = 1
    /\ UNCHANGED <<fmt, text, source, version, result, runs, first>>
    /\ UNCHANGED ovars
    /\ UNCHANGED <<svars, evars>>

\* The member chunks pushed before the chunk of their class.
ClassOutputMembersFirst(classChunk, methodChunks, propChunks) ==
    methodChunks \o propChunks \o <<classChunk>>

\* The pushes of one iteration, in their order: the class chunk, the method
\* chunks, the property chunks.
ClassOutput(classChunk, methodChunks, propChunks) ==
    <<classChunk>> \o methodChunks \o propChunks

\* One iteration of the for-of loop over the classes.
PyClass ==
    /\ fmt = "python" /\ pc = "loop" /\ ci <= Len(classes)
    /\ LET classInfo == classes[ci]
           classChunk == WithVersion(createClassChunk(classInfo, lines), version)
           methods == parseMethods(lines, classInfo)
           properties == parseProperties(lines, classInfo)
           methodChunks == [k \in 1..Len(methods.val) |->
                               WithVersion(createMethodChunk(methods.val[k]), version)]
           propChunks == [k \in 1..Len(properties.val) |->
                             WithVersion(createPropertyChunk(properties.val[k]), version)]
       IN  IF StartsWith(classInfo.name, <<"_">>)
           THEN chunks' = chunks /\ pc' = pc
           ELSE IF classInfo.isEnum
           THEN chunks' = chunks \o ClassOutput(classChunk, <<>>, <<>>) /\ pc' = pc
           ELSE IF methods.threw
           THEN chunks' = chunks \o ClassOutput(classChunk, <<>>, <<>>) /\ pc' = "threw"
           ELSE IF properties.threw
           THEN chunks' = chunks \o ClassOutput(classChunk, methodChunks, <<>>) /\ pc' = "threw"
           ELSE chunks' = chunks \o ClassOutput(classChunk, methodChunks, propChunks) /\ pc' = pc
    /\ ci' = ci + 1
    /\ UNCHANGED <<fmt, text, source, version, lines, classes, result, runs, first>>
    /\ UNCHANGED ovars
    /\ UNCHANGED <<svars, evars>>

\* The chunks of a run are returned.
Return(chs) ==
    /\ result' = chs
    /\ runs' = runs + 1
    /\ first' = IF runs = 0 THEN chs ELSE first
    /\ pc' = "returned"

PyReturn ==
    /\ fmt = "python" /\ pc = "loop" /\ ci > Len(classes)
    /\ Return(chunks)
    /\ UNCHANGED <<fmt, text, source, version, lines, classes, ci, chunks>>
    /\ UNCHANGED ovars
    /\ UNCHANGED <<svars, evars>>

MdParse ==
    /\ fmt = "markdown" /\ pc = "start"
    /\ chunks' = parseMarkdownDocs(text, source, version)
    /\ Return(chunks')
    /\ UNCHANGED <<fmt, text, source, version, lines, classes, ci>>
    /\ UNCHANGED ovars
    /\ UNCHANGED <<svars, evars>>

ConParse ==
    /\ fmt = "console" /\ pc = "start"
    /\ chunks' = parseUnrealConsole(text, version)
    /\ Return(chunks')
    /\ UNCHANGED <<fmt, text, source, version, lines, classes, ci>>
    /\ UNCHANGED ovars
    /\ UNCHANGED <<svars, evars>>

\* The recognizer is called again on the same text and version tag.
Rerun ==
    /\ pc = "returned" /\ runs < MaxRuns
    /\ pc' = "start"
    /\ UNCHANGED <<fmt, text, source, version, lines, classes, ci, chunks, result, runs, first>>
    /\ UNCHANGED ovars
    /\ UNCHANGED <<svars, evars>>

Next == PyRead \/ PyClass \/ PyReturn \/ MdParse \/ ConParse \/ Rerun

Spec == Init /\ [][Next]_vars


-----------------------------------------------------------------------------
(* The orchestrator (scripts/parse-all.ts).                                *)

\* A file of a source directory: its extension, whether readFileSync can read it,
\* and its text. Its name is its position in the listing followed by the extension.
ExtMd == <<".","m","d">>
ExtTxt == <<".","t","x","t">>
ExtPng == <<".","p","n","g">>

FileName(k, file) == NatToString(k) \o file.ext
PathOf(dir, name) == dir \o <<"/">> \o name

\* readdirSync(sourceDir): the names of the files, in listing order
readdirSync(files) == [k \in 1..Len(files) |-> FileName(k, files[k])]

\* .filter((f) => f.endsWith('.md') || f.endsWith('.txt'))
FilterDocs(names) == SelectSeq(names, LAMBDA f : EndsWith(f, ExtMd) \/ EndsWith(f, ExtTxt))

\* The tasks pushed for one entry of markdownSources.
TasksOf(dirs, dir) ==
    IF ~dirs[dir].exists THEN <<>>
    ELSE LET files == FilterDocs(readdirSync(dirs[dir].files))
         IN  [k \in 1..Len(files) |->
                 [source |-> dir, path |-> PathOf(dir, files[k]),
                  parser |-> "markdown", version |-> Undefined]]

\* discoverSources() over the directories dirs
discoverSources(dirs) == TasksOf(dirs, S_pyqt_reference) \o TasksOf(dirs, S_pyqt_tutorials)

\* The file at a path of the sources directory.
FileAt(dirs, path) ==
    LET dir == CHOOSE d \in DOMAIN dirs : StartsWith(path, d \o <<"/">>)
        k == CHOOSE j \in 1..Len(dirs[dir].files) :
                 PathOf(dir, FileName(j, dirs[dir].files[j])) = path
    IN  dirs[dir].files[k]

\* parseSource(task): threw when readFileSync throws, else the chunks.
parseSource(dirs, task) ==
    IF ~FileAt(dirs, task.path).readable
    THEN [threw |-> TRUE, chunks |-> <<>>]
    ELSE [threw |-> FALSE,
          chunks |-> parseMarkdownDocs(FileAt(dirs, task.path).text, task.source, task.version)]

\* stats[source] ?? 0 and stats[source] = n, stats being the entries of the record
\* in insertion order.
\* The tally of an origin read as if nothing had been counted yet.
StatsGetZero(st, src) == 0

StatsGet(st, src) ==
    IF \E k \in 1..Len(st) : st[k].source = src
    THEN st[CHOOSE k \in 1..Len(st) : st[k].source = src].count
    ELSE 0
StatsSet(st, src, n) ==
    IF \E k \in 1..Len(st) : st[k].source = src
    THEN [k \in 1..Len(st) |-> IF st[k].source = src THEN [st[k] EXCEPT !.count = n] ELSE st[k]]
    ELSE Append(st, [source |-> src, count |-> n])

\* A serialization that writes the empty string for a value that is undefined.
JsonOfEmptyStrings(chunk) ==
    [key \in DOMAIN chunk |-> IF chunk[key] = Undefined THEN <<>> ELSE chunk[key]]

\* JSON.stringify(allChunks, null, 2): a key whose value is undefined is left out.
JsonOf(chunk) == [key \in {k \in DOMAIN chunk : chunk[k] # Undefined} |-> chunk[key]]
Serialize(chs) == [k \in 1..Len(chs) |-> JsonOf(chs[k])]

\* The documents found in the source directories.
DocOne == Join(<<MdIntro, MdLong>>, NL)
DocTwo == Join(<<MdIntro, MdLong, MdUsage, MdLong>>, NL)
DocNone == Join(<<MdIntro, MdShort>>, NL)

FileKinds == {[ext |-> ExtMd, readable |-> TRUE, text |-> DocOne],
              [ext |-> ExtMd, readable |-> TRUE, text |-> DocTwo],
              [ext |-> ExtTxt, readable |-> TRUE, text |-> DocNone],
              [ext |-> ExtMd, readable |-> FALSE, text |-> <<>>],
              [ext |-> ExtPng, readable |-> TRUE, text |-> <<>>]}

\* A directory is absent, or holds a sequence of files.
DirsOf(n) == {[exists |-> FALSE, files |-> <<>>]}
             \cup {[exists |-> TRUE, files |-> fs] : fs \in SeqsUpTo(FileKinds, n)}

\* The sources directory: the two directories of markdownSources.
SourceDirs == {d \in [{S_pyqt_reference, S_pyqt_tutorials} -> DirsOf(MaxFiles)] :
                  Len(d[S_pyqt_reference].files) + Len(d[S_pyqt_tutorials].files) <= MaxFiles}

\* No recognizer runs on its own while the orchestrator does.
RecIdle ==
    /\ fmt = "none"
    /\ text = <<>>
    /\ source = <<>>
    /\ version = Undefined
    /\ pc = "idle"
    /\ lines = <<>>
    /\ classes = <<>>
    /\ ci = 0
    /\ chunks = <<>>
    /\ result = <<>>
    /\ runs = 0
    /\ first = <<>>

InitOrch ==
    /\ RecIdle
    /\ StoreIdle
    /\ opc = "start"
    /\ sourcesDir \in SourceDirs
    /\ tasks = <<>>
    /\ ti = 0
    /\ allChunks = <<>>
    /\ stats = <<>>
    /\ exitCode = -1
    /\ written \in {[state |-> "absent", chunks |-> <<>>], [state |-> "old", chunks |-> <<>>]}
    /\ log = <<>>

\* Discovery without the exit on an empty task list.
DiscoverNoExit ==
    /\ opc = "start"
    /\ tasks' = discoverSources(sourcesDir)
    /\ log' = log \o <<"discovering", "found">>
    /\ opc' = "loop"
    /\ ti' = 1
    /\ allChunks' = <<>>
    /\ stats' = <<>>
    /\ UNCHANGED <<exitCode, written, sourcesDir>>
    /\ UNCHANGED rvars
    /\ UNCHANGED <<svars, evars>>

\* Lines 88 to 100: discovery, and the exit when there is no task.
Discover ==
    /\ opc = "start"
    /\ tasks' = discoverSources(sourcesDir)
    /\ IF Len(tasks') = 0
       THEN /\ log' = log \o <<"discovering", "no-sources">>
            /\ exitCode' = 1
            /\ opc' = "exited"
       ELSE /\ log' = log \o <<"discovering", "found">>
            /\ exitCode' = exitCode
            /\ opc' = "loop"
    /\ ti' = 1
    /\ allChunks' = <<>>
    /\ stats' = <<>>
    /\ UNCHANGED <<written, sourcesDir>>
    /\ UNCHANGED rvars
    /\ UNCHANGED <<svars, evars>>


\* The chunks of a task put in front of the aggregate.
PushFront(all, found) == found \o all

\* allChunks.push(...chunks)
Push(all, found) == all \o found

\* One iteration of the loop over the tasks in which parseSource returns.
TaskOk ==
    /\ opc = "loop" /\ ti <= Len(tasks)
    /\ ~parseSource(sourcesDir, tasks[ti]).threw
    /\ LET found == parseSource(sourcesDir, tasks[ti]).chunks
           current == StatsGet(stats, tasks[ti].source)
       IN  /\ allChunks' = Push(allChunks, found)
           /\ stats' = StatsSet(stats, tasks[ti].source, current + Len(found))
    /\ log' = log \o <<"parsing", "chunks">>
    /\ ti' = ti + 1
    /\ UNCHANGED <<opc, tasks, exitCode, written, sourcesDir>>
    /\ UNCHANGED rvars
    /\ UNCHANGED <<svars, evars>>

\* An error of parseSource that ends the run.
TaskFailsAbort ==
    /\ opc = "loop" /\ ti <= Len(tasks)
    /\ parseSource(sourcesDir, tasks[ti]).threw
    /\ log' = log \o <<"parsing", "error">>
    /\ opc' = "exited"
    /\ exitCode' = 1
    /\ UNCHANGED <<ti, tasks, allChunks, stats, written, sourcesDir>>
    /\ UNCHANGED rvars
    /\ UNCHANGED <<svars, evars>>

\* One iteration of the loop over the tasks in which parseSource throws: the catch
\* clause logs the error.
TaskFails ==
    /\ opc = "loop" /\ ti <= Len(tasks)
    /\ parseSource(sourcesDir, tasks[ti]).threw
    /\ log' = log \o <<"parsing", "error">>
    /\ ti' = ti + 1
    /\ UNCHANGED <<opc, tasks, allChunks, stats, exitCode, written, sourcesDir>>
    /\ UNCHANGED rvars
    /\ UNCHANGED <<svars, evars>>

\* Lines 119 to 126: the summary, and the aggregate is written.
Finish ==
    /\ opc = "loop" /\ ti > Len(tasks)
    /\ log' = log \o <<"summary">> \o [k \in 1..Len(stats) |-> "stat"] \o <<"total", "saved">>
    /\ written' = [state |-> "new", chunks |-> Serialize(allChunks)]
    /\ exitCode' = 0
    /\ opc' = "done"
    /\ UNCHANGED <<tasks, ti, allChunks, stats, sourcesDir>>
    /\ UNCHANGED rvars
    /\ UNCHANGED <<svars, evars>>

NextOrch == Discover \/ TaskOk \/ TaskFails \/ Finish

SpecOrch == InitOrch /\ [][NextOrch]_vars


-----------------------------------------------------------------------------
(* The vector store (VectorStore of src/embedder.ts).                      *)

\* Rows the store returns for one vector query.
MaxRows == 2
\* The largest result limit of a search.
MaxLimit == 2

\* A vector of the 384 numbers the record schema asks for, and one that is shorter.
Vec384 == "vector of 384 numbers"
VecShort == "vector of 3 numbers"

\* LanceDBQueryResultSchema.safeParse(row).success
LanceDBQueryResultValid(row) ==
    /\ Len(row.id) >= 1
    /\ Len(row.source) >= 1
    /\ Len(row.type) >= 1
    /\ Len(row.name) >= 1
    /\ Len(row.content) >= 1
    /\ row.vector = Vec384
    /\ "_distance" \in DOMAIN row
    /\ row._distance \in Int

\* validateQueryResult(row): null (here Undefined) when the row fails the schema
validateQueryResult(row) == IF LanceDBQueryResultValid(row) THEN row ELSE Undefined

\* validateSource and validateDocType throw for a value outside the enumeration.
EnumsValid(validated) == validated.source \in DOC_SOURCES /\ validated.type \in DOC_TYPES

\* score: 1 - validated._distance
ScoreOf(validated) == 1 - validated._distance

SearchResultOfKeepsEmpty(validated) ==
    [chunk |-> [id |-> validated.id,
                source |-> validated.source,
                type |-> validated.type,
                name |-> validated.name,
                parentName |-> validated.parentName,
                content |-> validated.content,
                version |-> validated.version],
     score |-> ScoreOf(validated)]

\* The object pushed to results for a validated row.
SearchResultOf(validated) ==
    [chunk |-> [id |-> validated.id,
                source |-> validated.source,
                type |-> validated.type,
                name |-> validated.name,
                parentName |-> IF validated.parentName # <<>> THEN validated.parentName
                               ELSE Undefined,
                content |-> validated.content,
                version |-> IF validated.version # <<>> THEN validated.version
                            ELSE Undefined],
     score |-> ScoreOf(validated)]

RECURSIVE SearchScanUnchecked(_)
SearchScanUnchecked(rawResults) ==
    IF rawResults = <<>> THEN <<>>
    ELSE LET validated == validateQueryResult(Head(rawResults))
         IN  IF validated = Undefined
             THEN SearchScanUnchecked(Tail(rawResults))
             ELSE <<SearchResultOf(validated)>> \o SearchScanUnchecked(Tail(rawResults))

\* The for-of loop of search over rawResults.
RECURSIVE SearchScan(_)
SearchScan(rawResults) ==
    IF rawResults = <<>> THEN <<>>
    ELSE LET validated == validateQueryResult(Head(rawResults))
         IN  IF validated = Undefined \/ ~EnumsValid(validated)
             THEN SearchScan(Tail(rawResults))
             ELSE <<SearchResultOf(validated)>> \o SearchScan(Tail(rawResults))

\* table.vectorSearch(queryVector).limit(limit).where(...).toArray(): the nearest
\* rows of the table, those of the listed origins when a non-empty list is given.
VectorQuery(rows, limit, sourceFilter) ==
    LET kept == IF sourceFilter # Undefined /\ Len(sourceFilter) > 0
                THEN SelectSeq(rows, LAMBDA r :
                                   \E k \in 1..Len(sourceFilter) : r.source = sourceFilter[k])
                ELSE rows
    IN  SubSeq(kept, 1, MinOf({limit, Len(kept)}))

NotInitialized == <<"V","e","c","t","o","r","S","t","o","r","e"," ","n","o","t"," ",
                    "i","n","i","t","i","a","l","i","z","e","d">>

\* The rows of the table: the distances to the query a store can report, the empty
\* string for an absent parentName or version, and rows that fail validation.
StoredRecord(src, typ, parent, ver, vec) ==
    [id |-> <<"i","d">>, source |-> src, type |-> typ, name |-> <<"n">>,
     parentName |-> parent, content |-> <<"c">>, version |-> ver, vector |-> vec]
StoredRow(src, typ, parent, ver, vec, dist) ==
    [key \in {"id", "source", "type", "name", "parentName", "content", "version", "vector",
              "_distance"} |->
        IF key = "_distance" THEN dist ELSE StoredRecord(src, typ, parent, ver, vec)[key]]
Distances == {0, 1, 2}

\* The object the embedding script pushes to records for one chunk read from
\* chunks.json and its embedding.
EmbeddingRecordOf(chunk, embedding) ==
    [id |-> chunk.id,
     source |-> chunk.source,
     type |-> chunk.type,
     name |-> chunk.name,
     parentName |-> IF "parentName" \in DOMAIN chunk THEN chunk.parentName ELSE <<>>,
     content |-> chunk.content,
     version |-> IF "version" \in DOMAIN chunk THEN chunk.version ELSE <<>>,
     vector |-> embedding]

\* A record of the table as a vector query returns it, dist away from the query.
QueryRowOf(record, dist) ==
    [key \in DOMAIN record \cup {"_distance"} |->
        IF key = "_distance" THEN dist ELSE record[key]]

\* Chunks of chunks.json: with and without a parentName, with and without a version.
EmbeddedChunks ==
    {Chunk(<<"u",":","m">>, SOURCE_NAME, V56, T_method, <<"f">>, <<"A">>, <<"f","(",")">>,
           <<"#"," ","A",".","f">>),
     Chunk(<<"u",":","p">>, SOURCE_NAME, Undefined, T_property, <<"p">>, <<"A">>, Undefined,
           <<"#"," ","A",".","p">>),
     Chunk(<<"u",":","c">>, SOURCE_NAME, V56, T_class, <<"A">>, Undefined, Undefined,
           <<"#"," ","A">>),
     Chunk(<<"t",":","g">>, S_pyqt_tutorials, Undefined, T_guide, <<"G">>, Undefined, Undefined,
           <<"#"," ","G">>)}

\* The rows the embedding script stored for the chunks of chunks.json.
EmbeddedRows == {QueryRowOf(EmbeddingRecordOf(JsonOf(c), Vec384), 1) : c \in EmbeddedChunks}

StoredRows ==
    EmbeddedRows \cup
    {StoredRow(S_pyqt_reference, T_guide, <<>>, <<>>, Vec384, d) : d \in Distances}
    \cup {StoredRow(SOURCE_NAME, T_method, <<"A">>, V56, Vec384, d) : d \in Distances}
    \cup {StoredRow(<<"w","e","b">>, T_guide, <<>>, <<>>, Vec384, 1),
          StoredRow(S_pyqt_reference, <<"n","o","t","e">>, <<>>, <<>>, Vec384, 1),
          StoredRow(S_pyqt_reference, T_guide, <<>>, <<>>, VecShort, 1),
          StoredRecord(S_pyqt_reference, T_guide, <<>>, <<>>, Vec384)}

\* The distance a row is ranked by, a row without one last.
RankOf(row) == IF "_distance" \in DOMAIN row THEN row._distance ELSE 3

\* The contents of the table, nearest row first.
StoreContents ==
    {rows \in SeqsUpTo(StoredRows, MaxRows) :
        \A k \in 1..(Len(rows) - 1) : RankOf(rows[k]) <= RankOf(rows[k + 1])}

SourceFilters == {Undefined, <<>>, <<S_pyqt_reference>>, <<S_pyqt_reference, SOURCE_NAME>>}

\* search(queryVector, limit, sourceFilter) on a store whose table is tbl: the error
\* it throws or the results it returns, and whether it queried the table.
VectorStoreSearch(tbl, rows, limit, sourceFilter) ==
    IF tbl = "null"
    THEN [error |-> NotInitialized, results |-> <<>>, queried |-> FALSE]
    ELSE [error |-> <<>>, results |-> SearchScan(VectorQuery(rows, limit, sourceFilter)),
          queried |-> TRUE]

\* The loop of getStats over allRows and Object.entries(stats): one entry per origin,
\* in the order of first occurrence, with the number of its rows.
StatsOf(allRows) ==
    LET firsts == SelectSeq([k \in 1..Len(allRows) |-> k],
                            LAMBDA k : \A j \in 1..(k - 1) : allRows[j].source # allRows[k].source)
    IN  [i \in 1..Len(firsts) |->
            [source |-> allRows[firsts[i]].source,
             count |-> Cardinality({j \in 1..Len(allRows) :
                                       allRows[j].source = allRows[firsts[i]].source})]]

\* getStats() on a store whose table is tbl.
VectorStoreGetStats(tbl, rows) ==
    IF tbl = "null"
    THEN [error |-> NotInitialized, results |-> <<>>, queried |-> FALSE]
    ELSE [error |-> <<>>, results |-> StatsOf(rows), queried |-> TRUE]

\* The record of a call on the store.
OutcomeOf(name, r) ==
    [call |-> name, error |-> r.error, results |-> r.results, queried |-> r.queried]

Rejected == <<"r","e","j","e","c","t","e","d">>

InitStore ==
    /\ RecIdle
    /\ OrchIdle
    /\ db = "null"
    /\ table = "null"
    /\ storeRows \in StoreContents
    /\ outcome = NoCall
    /\ initialized = FALSE
    /\ EmbedIdle

\* initialize(): connect and openTable resolve.
Initialize ==
    /\ table \in {"null", "open"}
    /\ db' = "connected"
    /\ table' = "open"
    /\ initialized' = TRUE
    /\ outcome' = [call |-> "initialize", error |-> <<>>, results |-> <<>>, queried |-> FALSE]
    /\ UNCHANGED storeRows
    /\ UNCHANGED <<rvars, ovars, evars>>

InitializeFailsTableSet ==
    /\ table \in {"null", "open"}
    /\ \E stage \in {"connect", "openTable"} :
          /\ db' = IF stage = "openTable" THEN "connected" ELSE db
          /\ table' = IF stage = "openTable" THEN "open" ELSE table
    /\ outcome' = [call |-> "initialize", error |-> Rejected, results |-> <<>>,
                   queried |-> FALSE]
    /\ UNCHANGED <<storeRows, initialized>>
    /\ UNCHANGED <<rvars, ovars, evars>>

\* initialize(): connect rejects, or connect resolves, this.db is assigned and
\* openTable rejects; this.table keeps its value.
InitializeFails ==
    /\ table \in {"null", "open"}
    /\ \E stage \in {"connect", "openTable"} :
          db' = IF stage = "openTable" THEN "connected" ELSE db
    /\ outcome' = [call |-> "initialize", error |-> Rejected, results |-> <<>>,
                   queried |-> FALSE]
    /\ UNCHANGED <<table, storeRows, initialized>>
    /\ UNCHANGED <<rvars, ovars, evars>>

\* search(queryVector, limit, sourceFilter)
Search ==
    /\ table \in {"null", "open"}
    /\ \E limit \in 1..MaxLimit, sourceFilter \in SourceFilters :
          outcome' = OutcomeOf("search", VectorStoreSearch(table, storeRows, limit, sourceFilter))
    /\ UNCHANGED <<db, table, storeRows, initialized>>
    /\ UNCHANGED <<rvars, ovars, evars>>

\* getStats()
GetStats ==
    /\ table \in {"null", "open"}
    /\ outcome' = OutcomeOf("getStats", VectorStoreGetStats(table, storeRows))
    /\ UNCHANGED <<db, table, storeRows, initialized>>
    /\ UNCHANGED <<rvars, ovars, evars>>

NextStore == Initialize \/ InitializeFails \/ Search \/ GetStats

SpecStore == InitStore /\ [][NextStore]_vars

-----------------------------------------------------------------------------
(* The embedder (getEmbedder, embedText of src/embedder.ts) and the search  *)
(* tools (src/tools/search.ts).  Calls run on one thread and interleave at  *)
(* their awaits.                                                            *)

\* Calls of the search tools in one run of the server.
MaxCalls == 2
Callers == 1..MaxCalls

Tools == {"searchBySource", "searchAllSources"}

\* The origins searchBySource is called with.
ToolSources == {SOURCE_NAME, S_pyqt_reference}

\* The error a rejected pipeline() promise carries: one per call of pipeline().
PipelineError(k) == <<"l","o","a","d"," ">> \o NatToString(k)

EmbeddingFailed == <<"F","a","i","l","e","d"," ","t","o"," ","g","e","n","e","r","a","t","e"," ",
                     "e","m","b","e","d","d","i","n","g">>

\* The state of a promise: "null" for no promise.
PromiseState(p) == IF p = 0 THEN "null" ELSE pipelines[p]

\* A call that has not been made.  seen is history: the state of initPromise when
\* the call entered getEmbedder.
NotCalled ==
    [pc |-> "idle", tool |-> "none", seen |-> "none", promise |-> 0, embedder |-> 0,
     error |-> <<>>]

getEmbedderNoShare(instance, promise) ==
    IF instance # 0 THEN "instance" ELSE "start"

\* The branch getEmbedder takes: it returns the instance, returns the pending
\* promise, or starts the pipeline.
getEmbedder(instance, promise) ==
    IF instance # 0 THEN "instance"
    ELSE IF promise # 0 THEN "shared"
    ELSE "start"

\* Math.round(score * 100) / 100; the scores of the model are whole numbers.
RoundHundredths(score) == (score * 100) \div 100

mapResultToOutput(r) ==
    [type |-> r.chunk.type, name |-> r.chunk.name, parentName |-> r.chunk.parentName,
     content |-> r.chunk.content, score |-> RoundHundredths(r.score)]

mapResultToOutputWithSource(r) ==
    [source |-> r.chunk.source, type |-> r.chunk.type, name |-> r.chunk.name,
     parentName |-> r.chunk.parentName, content |-> r.chunk.content,
     score |-> RoundHundredths(r.score)]

\* The value searchBySource or searchAllSources returns for the results of search.
ToolOutput(tool, results) ==
    [results |-> [k \in 1..Len(results) |->
                     IF tool = "searchBySource" THEN mapResultToOutput(results[k])
                     ELSE mapResultToOutputWithSource(results[k])],
     totalResults |-> Len(results)]

\* The row stored for the chunk of chunks.json with this id.
EmbeddedRow(id) == CHOOSE r \in EmbeddedRows : r.id = id

\* Tables the search tools run on: valid rows, and valid rows next to a row of an
\* unknown type, of an unknown origin, or with a short vector.
ToolStores ==
    {<<EmbeddedRow(<<"u",":","m">>), EmbeddedRow(<<"t",":","g">>)>>,
     <<StoredRow(S_pyqt_reference, <<"n","o","t","e">>, <<>>, <<>>, Vec384, 1),
       StoredRow(S_pyqt_reference, T_guide, <<>>, <<>>, Vec384, 1)>>,
     <<StoredRow(SOURCE_NAME, T_method, <<"A">>, V56, Vec384, 0),
       StoredRow(SOURCE_NAME, T_guide, <<>>, <<>>, VecShort, 1)>>,
     <<StoredRow(<<"w","e","b">>, T_guide, <<>>, <<>>, Vec384, 1),
       EmbeddedRow(<<"u",":","c">>)>>}

\* The server runs with a store that was opened, or whose initialize() failed.
InitEmbed ==
    /\ RecIdle
    /\ OrchIdle
    /\ \/ db = "null" /\ table = "null" /\ initialized = FALSE
       \/ db = "connected" /\ table = "null" /\ initialized = FALSE
       \/ db = "connected" /\ table = "open" /\ initialized = TRUE
    /\ storeRows \in ToolStores
    /\ outcome = NoCall
    /\ embedderInstance = 0
    /\ initPromise = 0
    /\ pipelines = <<>>
    /\ calls = [c \in Callers |-> NotCalled]
    /\ toolResult = NoToolResult

\* searchBySource or searchAllSources is called: embedText, and getEmbedder up to
\* its return or its await.
ToolCall(c) ==
    /\ calls[c].pc = "idle"
    /\ \E tool \in Tools :
          LET path == getEmbedder(embedderInstance, initPromise)
              started == Len(pipelines) + 1
          IN  /\ pipelines' = IF path = "start" THEN Append(pipelines, "pending")
                              ELSE pipelines
              /\ initPromise' = IF path = "start" THEN started ELSE initPromise
              /\ calls' = [calls EXCEPT ![c] =
                    [pc |-> IF path = "instance" THEN "ready"
                            ELSE IF path = "shared" THEN "shared" ELSE "loading",
                     tool |-> tool,
                     seen |-> PromiseState(initPromise),
                     promise |-> IF path = "start" THEN started
                                 ELSE IF path = "shared" THEN initPromise ELSE 0,
                     embedder |-> IF path = "instance" THEN embedderInstance ELSE 0,
                     error |-> <<>>]]
    /\ UNCHANGED <<embedderInstance, toolResult>>
    /\ UNCHANGED <<rvars, ovars, svars>>

\* The model loads: a promise of pipeline() is fulfilled.
PipelineResolves ==
    /\ \E k \in 1..Len(pipelines) :
          /\ pipelines[k] = "pending"
          /\ pipelines' = [pipelines EXCEPT ![k] = "fulfilled"]
    /\ UNCHANGED <<embedderInstance, initPromise, calls, toolResult>>
    /\ UNCHANGED <<rvars, ovars, svars>>

\* The model fails to load: a promise of pipeline() is rejected.
PipelineRejects ==
    /\ \E k \in 1..Len(pipelines) :
          /\ pipelines[k] = "pending"
          /\ pipelines' = [pipelines EXCEPT ![k] = "rejected"]
    /\ UNCHANGED <<embedderInstance, initPromise, calls, toolResult>>
    /\ UNCHANGED <<rvars, ovars, svars>>

ResumeForgetsFailure(c) ==
    /\ calls[c].pc = "loading"
    /\ pipelines[calls[c].promise] # "pending"
    /\ IF pipelines[calls[c].promise] = "fulfilled"
       THEN /\ embedderInstance' = calls[c].promise
            /\ calls' = [calls EXCEPT ![c].pc = "ready", ![c].embedder = calls[c].promise]
            /\ UNCHANGED initPromise
       ELSE /\ calls' = [calls EXCEPT ![c].pc = "failed",
                                      ![c].error = PipelineError(calls[c].promise)]
            /\ initPromise' = 0
            /\ UNCHANGED embedderInstance
    /\ UNCHANGED <<pipelines, toolResult>>
    /\ UNCHANGED <<rvars, ovars, svars>>

\* getEmbedder after its await: embedderInstance is assigned and returned, or the
\* rejection is thrown to the caller.
Resume(c) ==
    /\ calls[c].pc = "loading"
    /\ pipelines[calls[c].promise] # "pending"
    /\ IF pipelines[calls[c].promise] = "fulfilled"
       THEN /\ embedderInstance' = calls[c].promise
            /\ calls' = [calls EXCEPT ![c].pc = "ready", ![c].embedder = calls[c].promise]
       ELSE /\ calls' = [calls EXCEPT ![c].pc = "failed",
                                      ![c].error = PipelineError(calls[c].promise)]
            /\ UNCHANGED embedderInstance
    /\ UNCHANGED <<initPromise, pipelines, toolResult>>
    /\ UNCHANGED <<rvars, ovars, svars>>

\* embedText after its await on a getEmbedder that returned initPromise.
Adopt(c) ==
    /\ calls[c].pc = "shared"
    /\ pipelines[calls[c].promise] # "pending"
    /\ calls' = IF pipelines[calls[c].promise] = "fulfilled"
                THEN [calls EXCEPT ![c].pc = "ready", ![c].embedder = calls[c].promise]
                ELSE [calls EXCEPT ![c].pc = "failed",
                                   ![c].error = PipelineError(calls[c].promise)]
    /\ UNCHANGED <<embedderInstance, initPromise, pipelines, toolResult>>
    /\ UNCHANGED <<rvars, ovars, svars>>

\* embedText: the output holds no vector.
EmbedFails(c) ==
    /\ calls[c].pc = "ready"
    /\ calls' = [calls EXCEPT ![c].pc = "failed", ![c].error = EmbeddingFailed]
    /\ UNCHANGED <<embedderInstance, initPromise, pipelines, toolResult>>
    /\ UNCHANGED <<rvars, ovars, svars>>

\* embedText returns the vector, and the tool searches the store and returns.
ToolReturns(c) ==
    /\ calls[c].pc = "ready"
    /\ \E limit \in 1..MaxLimit, src \in ToolSources :
          LET sourceFilter == IF calls[c].tool = "searchBySource" THEN <<src>> ELSE Undefined
              r == VectorStoreSearch(table, storeRows, limit, sourceFilter)
          IN  IF r.error # <<>>
              THEN /\ calls' = [calls EXCEPT ![c].pc = "failed", ![c].error = r.error]
                   /\ UNCHANGED toolResult
              ELSE /\ calls' = [calls EXCEPT ![c].pc = "done"]
                   /\ toolResult' = [tool |-> calls[c].tool, limit |-> limit,
                                     sourceFilter |-> sourceFilter, found |-> r.results,
                                     output |-> ToolOutput(calls[c].tool, r.results)]
    /\ UNCHANGED <<embedderInstance, initPromise, pipelines>>
    /\ UNCHANGED <<rvars, ovars, svars>>

NextEmbed ==
    \/ \E c \in Callers : ToolCall(c)
    \/ PipelineResolves
    \/ PipelineRejects
    \/ \E c \in Callers : Resume(c)
    \/ \E c \in Callers : Adopt(c)
    \/ \E c \in Callers : EmbedFails(c)
    \/ \E c \in Callers : ToolReturns(c)

SpecEmbed == InitEmbed /\ [][NextEmbed]_vars


-----------------------------------------------------------------------------
(* Properties.                                                             *)

\* No two chunks of the sequence have the same id.
NoDupIds(chs) == \A i, j \in 1..Len(chs) : i # j => chs[i].id # chs[j].id

\* C1: the chunks parseUnrealPython returns for a stub-file document have pairwise
\* distinct ids.
C1_StubIdsDistinct == (fmt = "python" /\ pc = "returned") => NoDupIds(result)

\* C2: the chunks parseMarkdownDocs returns for a markdown document have pairwise
\* distinct ids, also when sections share their title and type.
C2_MarkdownIdsDistinct == (fmt = "markdown" /\ pc = "returned") => NoDupIds(result)

\* A markdown run that returned two sections of the same title and type.
C2_RepeatedTitleReturned ==
    /\ fmt = "markdown" /\ pc = "returned"
    /\ \E i, j \in 1..Len(result) :
          i < j /\ result[i].name = result[j].name /\ result[i].type = result[j].type

\* C3: the chunks parseUnrealConsole returns for a command-list document have
\* pairwise distinct ids, also when an entry name comes under two headings of the
\* same kind.
C3_ConsoleIdsDistinct == (fmt = "console" /\ pc = "returned") => NoDupIds(result)

\* C4: in the aggregate the orchestrator builds from all tasks of a run, no two
\* chunks have the same id.
C4_AggregateIdsDistinct == NoDupIds(allChunks)

\* C5: the aggregate is never written with two chunks of the same id unless the
\* run has reported the duplicate or ended with an error status.
C5_DuplicateDetectedBeforeWrite ==
    (written.state = "new" /\ ~NoDupIds(written.chunks))
        => (exitCode > 0 \/ \E k \in 1..Len(log) : log[k] = "duplicate")

\* C6: every chunk a recognizer returns has a non-empty id, name and content, and
\* a type and source of the closed enumerations.
C6_ChunksValid == (pc = "returned") => \A k \in 1..Len(result) : DocChunkValid(result[k])

\* The chunks of the first k tasks whose document could be parsed, in task order.
RECURSIVE ParsedChunks(_)
ParsedChunks(k) ==
    IF k = 0 THEN <<>>
    ELSE ParsedChunks(k - 1)
         \o (IF FileAt(sourcesDir, tasks[k].path).readable
             THEN parseMarkdownDocs(FileAt(sourcesDir, tasks[k].path).text,
                                    tasks[k].source, Undefined)
             ELSE <<>>)

\* The number of chunks of origin src among them.
ParsedCount(k, src) == Len(SelectSeq(ParsedChunks(k), LAMBDA c : c.source = src))

\* C7: a task whose parse throws adds nothing to the aggregate and to the tally and
\* does not end the run: after each iteration the aggregate and the tally are those
\* of the tasks parsed so far, the run ends only by writing the aggregate of all
\* parsed tasks, and it exits early only when there is no task.
C7_FailedTaskSkipped ==
    /\ opc \in {"loop", "done"} =>
          /\ ti \in 1..(Len(tasks) + 1)
          /\ allChunks = ParsedChunks(ti - 1)
          /\ \A src \in {S_pyqt_reference, S_pyqt_tutorials} :
                StatsGet(stats, src) = ParsedCount(ti - 1, src)
    /\ opc = "done" =>
          /\ ti = Len(tasks) + 1
          /\ exitCode = 0
          /\ written = [state |-> "new", chunks |-> Serialize(ParsedChunks(Len(tasks)))]
    /\ opc = "exited" => Len(tasks) = 0

\* A finished run in which a task failed before another one gave chunks.
C7_FailedThenParsed ==
    /\ opc = "done"
    /\ written.state = "new" /\ Len(written.chunks) > 0
    /\ \E j, k \in 1..Len(tasks) :
          /\ j < k
          /\ ~FileAt(sourcesDir, tasks[j].path).readable
          /\ FileAt(sourcesDir, tasks[k].path).readable
          /\ Len(parseSource(sourcesDir, tasks[k]).chunks) > 0

\* C8: when discovery yields no task the run exits with a non-zero status, nothing
\* is parsed and the chunk collection is not written.
C8_EmptyTaskSetAborts ==
    (opc # "start" /\ Len(tasks) = 0) =>
        /\ opc = "exited"
        /\ exitCode = 1
        /\ written.state \in {"absent", "old"}
        /\ allChunks = <<>>
        /\ \A k \in 1..Len(log) : log[k] # "parsing"

\* A run that found only a file that is no document, and left the old collection.
C8_NoDocumentExit ==
    /\ opc = "exited"
    /\ written.state = "old"
    /\ \E d \in DOMAIN sourcesDir : Len(sourcesDir[d].files) > 0

\* C9: no exception escapes a recognizer, and its loop over the classes ends.
C9_NoEscape ==
    /\ pc \in {"start", "loop", "returned"}
    /\ pc = "loop" => ci \in 1..(Len(classes) + 1)
    /\ pc = "returned" => runs >= 1

\* A stub-file run that returned for a text whose last line declares a class or is
\* an unterminated docstring.
C9_MalformedReturned ==
    /\ fmt = "python" /\ pc = "returned"
    /\ Len(classes) >= 1
    /\ \/ ReExec(PyClassRe, lines[Len(lines)]).ok
       \/ lines[Len(lines)] = PyDocOpen

\* C10: a second run of the stub-file recognizer on the same text and version tag
\* returns the chunk sequence of the first one.
C10_Deterministic == (fmt = "python" /\ pc = "returned" /\ runs >= 2) => result = first

\* A second stub-file run that returned several chunks.
C10_SecondRunReturned == fmt = "python" /\ pc = "returned" /\ runs = 2 /\ Len(result) >= 2


\* The positions, in order, of the lines of ls that pattern re matches.
MatchingLines(ls, re) == SelectSeq([i \in 1..Len(ls) |-> i], LAMBDA i : ReExec(re, ls[i]).ok)

\* The lines after line h of ls up to the next line of the positions hs, or the end.
LinesAfter(ls, hs, h) ==
    LET later == {i \in 1..Len(hs) : hs[i] > h}
        stop == IF later = {} THEN Len(ls) + 1 ELSE hs[MinOf(later)]
    IN  SubSeq(ls, h + 1, stop - 1)

\* The trimmed body of the markdown section whose heading is line h.
SectionBody(ls, h) == Trim(Join(LinesAfter(ls, MatchingLines(ls, MdHeaderRe), h), NL))

\* The heading lines whose section has a trimmed body of more than 50 characters.
LongSections(ls) ==
    SelectSeq(MatchingLines(ls, MdHeaderRe), LAMBDA h : Len(SectionBody(ls, h)) > 50)

\* C11: the markdown chunks are, in order, the sections whose trimmed body is longer
\* than 50 characters, one chunk each, whether the next heading or the end of the
\* text closes the section.
C11_LongSectionsOnly ==
    (fmt = "markdown" /\ pc = "returned") =>
        LET ls == Split(text)
            kept == LongSections(ls)
        IN  /\ Len(result) = Len(kept)
            /\ \A k \in 1..Len(kept) :
                  /\ result[k].name = Trim(ReExec(MdHeaderRe, ls[kept[k]]).g[2])
                  /\ result[k].content =
                        <<"#", " ">> \o result[k].name \o <<"\n", "\n">> \o SectionBody(ls, kept[k])

\* A markdown run that dropped a section of exactly 50 characters and kept one of
\* 60 characters.
C11_ThresholdReturned ==
    /\ fmt = "markdown" /\ pc = "returned"
    /\ Len(result) = 1
    /\ LET ls == Split(text)
           hs == MatchingLines(ls, MdHeaderRe)
       IN  /\ Len(hs) = 2
           /\ \E i \in 1..2 : Len(SectionBody(ls, hs[i])) = 50
           /\ \E i \in 1..2 : Len(SectionBody(ls, hs[i])) = 60


\* Line i (1-based) of ls is a single-line docstring: the opening marker, plain or
\* raw, and the closing marker are on it, with text between them.
SingleLineDoc(ls, i) ==
    /\ i <= Len(ls)
    /\ LET t == Trim(ls[i])
       IN  \/ StartsWith(t, RawMarker) /\ EndsWith(t, Marker) /\ Len(t) > Len(RawMarker) + 3
           \/ StartsWith(t, Marker) /\ EndsWith(t, Marker) /\ Len(t) > Len(Marker) + 3

\* The text between its markers, without the blanks around it.
SingleLineDocText(ls, i) ==
    LET t == Trim(ls[i])
        open == IF StartsWith(t, RawMarker) THEN Len(RawMarker) ELSE Len(Marker)
    IN  Trim(SubSeq(t, open + 1, Len(t) - 3))

\* C12: a class declaration whose next line is a single-line docstring with text T
\* yields a class (or enum) chunk of its name whose content contains T.
C12_DocstringInClassChunk ==
    (fmt = "python" /\ pc = "returned") =>
        \A i \in 1..Len(lines) :
            (/\ ReExec(PyClassRe, lines[i]).ok
             /\ SingleLineDoc(lines, i + 1)
             /\ SingleLineDocText(lines, i + 1) # <<>>)
            => \E k \in 1..Len(result) :
                  /\ result[k].type \in {T_class, T_enum}
                  /\ result[k].name = ReExec(PyClassRe, lines[i]).g[1]
                  /\ Includes(result[k].content, SingleLineDocText(lines, i + 1))


\* Line i (1-based) of ls declares a class whose first parent is EnumBase.
EnumDeclaredAt(ls, i) ==
    /\ ReExec(PyClassRe, ls[i]).ok
    /\ ParentOf(ReExec(PyClassRe, ls[i]).g[2]) = EnumBase

\* The member listing expected for the enumeration declared on line i: a line
\* "  NAME: description" for every member line up to the next class declaration.
ExpectedMemberLines(ls, i) ==
    LET body == LinesAfter(ls, MatchingLines(ls, PyClassRe), i)
        members == SelectSeq(body, LAMBDA l : ReExec(EnumRe, l).ok)
    IN  [k \in 1..Len(members) |->
            <<" ", " ">> \o ReExec(EnumRe, members[k]).g[1] \o <<":", " ">>
                \o Trim(ReExec(EnumRe, members[k]).g[2])]

\* C13: every class whose first parent is EnumBase yields one chunk of type enum and
\* none of type class, and the chunk lists its members as NAME: description in line
\* order.
C13_EnumChunkListsMembers ==
    (fmt = "python" /\ pc = "returned") =>
        LET decls == SelectSeq([i \in 1..Len(lines) |-> i], LAMBDA i : EnumDeclaredAt(lines, i))
            enums == SelectSeq(result, LAMBDA c : c.type = T_enum)
        IN  /\ Len(enums) = Len(decls)
            /\ \A k \in 1..Len(decls) :
                  /\ enums[k].name = ReExec(PyClassRe, lines[decls[k]]).g[1]
                  /\ ExpectedMemberLines(lines, decls[k]) # <<>> =>
                        Includes(enums[k].content,
                                 Join(ExpectedMemberLines(lines, decls[k]), NL))
            /\ \A k \in 1..Len(result) :
                  result[k].type = T_class =>
                      \A i \in 1..Len(decls) :
                          ReExec(PyClassRe, lines[decls[i]]).g[1] # result[k].name
                          \/ \E j \in 1..Len(lines) :
                                /\ ReExec(PyClassRe, lines[j]).ok
                                /\ ~EnumDeclaredAt(lines, j)
                                /\ ReExec(PyClassRe, lines[j]).g[1] = result[k].name


\* The class declaration line that encloses line i of ls: the last one before it
\* (0 when there is none).
EnclosingClass(ls, i) ==
    LET before == {c \in 1..(i - 1) : ReExec(PyClassRe, ls[c]).ok}
    IN  IF before = {} THEN 0 ELSE MaxOf(before)

\* Line i of ls declares a method, private ones aside, inside a class.
MethodDeclaredAt(ls, i) ==
    /\ ReExec(MethodRe, ls[i]).ok
    /\ \/ ~StartsWith(ReExec(MethodRe, ls[i]).g[1], <<"_">>)
       \/ ReExec(MethodRe, ls[i]).g[1] \in KeptDunders
    /\ EnclosingClass(ls, i) # 0

\* The line before line i of ls is the decorator line tag.
DecoratedBy(ls, i, tag) == i > 1 /\ Trim(ls[i - 1]) = tag

StaticMark == <<"T","y","p","e",":"," ","s","t","a","t","i","c","m","e","t","h","o","d">>
ClassMark == <<"T","y","p","e",":"," ","c","l","a","s","s","m","e","t","h","o","d">>

\* C14: the method chunks are the method declarations in order, each with its class
\* as parentName; a chunk carries the static marker exactly when the line right
\* before its declaration is @staticmethod, and no marker when that line is no
\* decorator.
C14_DecoratorTagsOneMethod ==
    (fmt = "python" /\ pc = "returned") =>
        LET decls == SelectSeq([i \in 1..Len(lines) |-> i], LAMBDA i : MethodDeclaredAt(lines, i))
            methods == SelectSeq(result, LAMBDA c : c.type = T_method)
        IN  /\ Len(methods) = Len(decls)
            /\ \A k \in 1..Len(decls) :
                  /\ methods[k].name = ReExec(MethodRe, lines[decls[k]]).g[1]
                  /\ methods[k].parentName =
                        ReExec(PyClassRe, lines[EnclosingClass(lines, decls[k])]).g[1]
                  /\ DecoratedBy(lines, decls[k], <<"@","s","t","a","t","i","c","m","e","t","h","o","d">>)
                        => Includes(methods[k].content, StaticMark)
                  /\ (/\ ~DecoratedBy(lines, decls[k], <<"@","s","t","a","t","i","c","m","e","t","h","o","d">>)
                      /\ ~DecoratedBy(lines, decls[k], <<"@","c","l","a","s","s","m","e","t","h","o","d">>))
                        => (/\ ~Includes(methods[k].content, StaticMark)
                            /\ ~Includes(methods[k].content, ClassMark))


\* The description lines of the command-list entry whose heading is line h of ls: the
\* lines up to the next entry heading that are not blank and do not start with '#'.
DescriptionLines(ls, h) ==
    SelectSeq(LinesAfter(ls, MatchingLines(ls, ConHeaderRe), h),
              LAMBDA l : Trim(l) # <<>> /\ ~StartsWith(l, <<"#">>))

\* The header line and the kind line written for the entry heading l, with an empty
\* description after them.
BareEntryContent(l) ==
    Join(<<<<"#"," ">> \o ReExec(ConHeaderRe, l).g[1],
           <<"T","y","p","e",":"," ">> \o ReExec(ConHeaderRe, l).g[2],
           <<>>, <<>>>>, NL)

\* C15: the command-list chunks are the entry headings of the text in order, one chunk
\* each, and the chunk of a heading without a description line is its header line and
\* kind line followed by an empty description.
C15_EveryHeadingOneChunk ==
    (fmt = "console" /\ pc = "returned") =>
        LET ls == Split(text)
            hs == MatchingLines(ls, ConHeaderRe)
        IN  /\ Len(result) = Len(hs)
            /\ \A k \in 1..Len(hs) :
                  /\ result[k].name = ReExec(ConHeaderRe, ls[hs[k]]).g[1]
                  /\ DescriptionLines(ls, hs[k]) = <<>>
                        => result[k].content = BareEntryContent(ls[hs[k]])

\* A command list was parsed in which an entry heading had no description line, once
\* before another heading and once before the end of the text.
C15_BareEntryReturned ==
    /\ fmt = "console" /\ pc = "returned"
    /\ Len(result) = 2
    /\ \A k \in 1..2 : result[k].content = BareEntryContent(Split(text)[k])


\* C16: the class and enum chunks are the recognized class declarations of the file in
\* order, one chunk per declaration, whatever the name of the class.
C16_EveryClassOneChunk ==
    (fmt = "python" /\ pc = "returned") =>
        LET decls == MatchingLines(lines, PyClassRe)
            declared == SelectSeq(result, LAMBDA c : c.type \in {T_class, T_enum})
        IN  /\ Len(declared) = Len(decls)
            /\ \A k \in 1..Len(decls) :
                  declared[k].name = ReExec(PyClassRe, lines[decls[k]]).g[1]


\* C17: every chunk returned for one document carries the version tag the recognizer
\* was called with, and none carries a version when none was passed.
C17_UniformVersion ==
    pc = "returned" => \A k \in 1..Len(result) : result[k].version = version

\* The stub recognizer, called with a version tag, has returned a class, a method and
\* a property chunk.
C17_TaggedChunksReturned ==
    /\ pc = "returned" /\ fmt = "python" /\ version = V56
    /\ \A t \in {T_class, T_method, T_property} :
          \E k \in 1..Len(result) : result[k].type = t


\* The positions in chunks of the class and enum chunks, in order.
ClassChunkPositions(chunkSeq) ==
    SelectSeq([k \in 1..Len(chunkSeq) |-> k],
              LAMBDA k : chunkSeq[k].type \in {T_class, T_enum})

\* The class declaration lines of ls that yield a chunk: those whose class name does
\* not start with an underscore.
ChunkedClassLines(ls) ==
    SelectSeq(MatchingLines(ls, PyClassRe),
              LAMBDA c : ~StartsWith(ReExec(PyClassRe, ls[c]).g[1], <<"_">>))

\* Line i of ls lies in the body of the class declared on line c: no line from c + 1
\* to i starts like a class declaration.
InBodyOf(ls, i, c) ==
    c < i /\ \A j \in (c + 1)..i : ~ReExec(ClassStartRe, ls[j]).ok

\* The names of the methods declared in the body of the class of line c of ls, in
\* line order.
MethodNamesOf(ls, c) ==
    LET decls == SelectSeq([i \in 1..Len(ls) |-> i],
                           LAMBDA i : MethodDeclaredAt(ls, i) /\ InBodyOf(ls, i, c))
    IN  [k \in 1..Len(decls) |-> ReExec(MethodRe, ls[decls[k]]).g[1]]

\* C18: the class and enum chunks follow the file order of their declarations, and the
\* chunks between the chunk of one class and the chunk of the next are the member
\* chunks of that class, its declared methods among them; no member chunk precedes
\* the first class chunk.
C18_ClassesInFileOrder ==
    (fmt = "python" /\ pc = "returned") =>
        LET at == ClassChunkPositions(result)
            decls == ChunkedClassLines(lines)
        IN  /\ Len(at) = Len(decls)
            /\ Len(result) > 0 => (at # <<>> /\ at[1] = 1)
            /\ \A j \in 1..Len(at) :
                  LET stop == IF j < Len(at) THEN at[j + 1] ELSE Len(result) + 1
                      members == SubSeq(result, at[j] + 1, stop - 1)
                      methods == SelectSeq(members, LAMBDA c : c.type = T_method)
                  IN  /\ result[at[j]].name = ReExec(PyClassRe, lines[decls[j]]).g[1]
                      /\ \A k \in 1..Len(members) :
                            /\ members[k].type \in {T_method, T_property}
                            /\ members[k].parentName = result[at[j]].name
                      /\ result[at[j]].type = T_class
                            => [k \in 1..Len(methods) |-> methods[k].name]
                                  = MethodNamesOf(lines, decls[j])

\* Two classes with members were parsed: the result holds a class chunk followed by a
\* member chunk, then a second class chunk followed by a member chunk.
C18_TwoClassesWithMembers ==
    /\ fmt = "python" /\ pc = "returned"
    /\ Len(ClassChunkPositions(result)) = 2
    /\ ClassChunkPositions(result)[2] > 2
    /\ Len(result) > ClassChunkPositions(result)[2]


\* Line i of ls, inside the class of line c, declares a property: a method declaration
\* right after a @property line.
PropertyDeclaredAt(ls, i, c) ==
    /\ EnclosingClass(ls, i) = c
    /\ DecoratedBy(ls, i, <<"@","p","r","o","p","e","r","t","y">>)
    /\ ReExec(PropRe, ls[i]).ok

\* The declaration lines of the member chunks of the class of line c, in the order of
\* the member chunks in chunkSeq: a method chunk stands for the next method
\* declaration not yet taken, a property chunk for the next property declaration.
RECURSIVE MemberLines(_, _, _, _, _)
MemberLines(ls, c, chunkSeq, mFrom, pFrom) ==
    IF chunkSeq = <<>> THEN <<>>
    ELSE LET isMethod == Head(chunkSeq).type = T_method
             from == IF isMethod THEN mFrom ELSE pFrom
             cand == {i \in from..Len(ls) :
                         IF isMethod
                         THEN MethodDeclaredAt(ls, i) /\ EnclosingClass(ls, i) = c
                         ELSE PropertyDeclaredAt(ls, i, c)}
             at == IF cand = {} THEN 0 ELSE MinOf(cand)
         IN  <<at>> \o MemberLines(ls, c, Tail(chunkSeq),
                                   IF isMethod /\ at # 0 THEN at + 1 ELSE mFrom,
                                   IF ~isMethod /\ at # 0 THEN at + 1 ELSE pFrom)

\* C19: within one class the member chunks, methods and properties together, follow
\* the order of their declaration lines: no member chunk comes after a chunk of a
\* member declared on a later line.
C19_MembersInDeclarationOrder ==
    (fmt = "python" /\ pc = "returned") =>
        LET at == ClassChunkPositions(result)
            decls == ChunkedClassLines(lines)
        IN  \A j \in 1..Len(at) :
               LET stop == IF j < Len(at) THEN at[j + 1] ELSE Len(result) + 1
                   members == SubSeq(result, at[j] + 1, stop - 1)
                   declLines == MemberLines(lines, decls[j], members, 1, 1)
               IN  \A k \in 1..(Len(declLines) - 1) : declLines[k] <= declLines[k + 1]


\* C20: the aggregate only grows by appending: an iteration whose document is parsed
\* appends the chunks of that document, in the order the recognizer returned them, to
\* the end of the aggregate, and every other step leaves the aggregate as it is.
C20_AggregateAppendOnly ==
    [][IF opc = "loop" /\ ti' = ti + 1 /\ ~parseSource(sourcesDir, tasks[ti]).threw
       THEN allChunks' = allChunks \o parseSource(sourcesDir, tasks[ti]).chunks
       ELSE allChunks' = allChunks]_vars

\* A finished run whose first two documents both gave chunks, three or more together.
C20_TwoDocumentsAggregated ==
    /\ opc = "done"
    /\ Len(tasks) >= 2
    /\ \A k \in 1..2 : Len(parseSource(sourcesDir, tasks[k]).chunks) > 0
    /\ Len(allChunks) >= 3
    /\ allChunks = parseSource(sourcesDir, tasks[1]).chunks
                      \o parseSource(sourcesDir, tasks[2]).chunks


\* The sum of the counts of the tally entries st.
RECURSIVE TallySum(_)
TallySum(st) == IF st = <<>> THEN 0 ELSE Head(st).count + TallySum(Tail(st))

\* The number of chunks of chs whose source is src.
CountOf(chs, src) == Cardinality({k \in 1..Len(chs) : chs[k].source = src})

\* C21: at every point of the task loop and after it, the tally values add up to the
\* length of the aggregate, the tally of each origin is the number of aggregate
\* chunks of that origin, and no origin has two tally entries.
C21_TallyMatchesAggregate ==
    /\ TallySum(stats) = Len(allChunks)
    /\ \A src \in DOC_SOURCES : StatsGet(stats, src) = CountOf(allChunks, src)
    /\ \A j, k \in 1..Len(stats) : stats[j].source = stats[k].source => j = k

\* The loop has processed two parsed tasks of one origin, and the tally of that
\* origin counts the chunks of both.
C21_TwoTasksOneOrigin ==
    /\ opc = "loop" /\ ti = 3
    /\ tasks[1].source = tasks[2].source
    /\ Len(parseSource(sourcesDir, tasks[1]).chunks) > 0
    /\ Len(parseSource(sourcesDir, tasks[2]).chunks) > 0
    /\ StatsGet(stats, tasks[1].source) = Len(allChunks)
    /\ Len(allChunks) = Len(parseSource(sourcesDir, tasks[1]).chunks)
                           + Len(parseSource(sourcesDir, tasks[2]).chunks)


\* C22: every result of a search has a score from 0 to 1.
C22_ScoreInUnitRange ==
    outcome.call = "search" =>
        \A k \in 1..Len(outcome.results) :
            outcome.results[k].score >= 0 /\ outcome.results[k].score <= 1


\* C23: the span of each recognized class runs from its declaration line up to the
\* declaration line of the next recognized class, or to the end of the file for the
\* last one, so that every line from the first declaration on lies in exactly one span.
C23_SpansPartitionFile ==
    (fmt = "python" /\ pc \in {"loop", "returned"}) =>
        LET decls == MatchingLines(lines, PyClassRe)
        IN  /\ Len(classes) = Len(decls)
            /\ \A k \in 1..Len(decls) :
                  /\ classes[k].lineNumber = decls[k] - 1
                  /\ classes[k].endLine = IF k < Len(decls) THEN decls[k + 1] - 1
                                          ELSE Len(lines)
            /\ decls # <<>> =>
                  \A i \in (decls[1] - 1)..(Len(lines) - 1) :
                      Cardinality({k \in 1..Len(classes) :
                                      classes[k].lineNumber <= i /\ i < classes[k].endLine}) = 1


\* Line i of ls is the setter declaration of a property: the line before it is the
\* @name.setter decorator of the declared name.
SetterDeclaredAt(ls, i) ==
    /\ ReExec(MethodRe, ls[i]).ok
    /\ DecoratedBy(ls, i, <<"@">> \o ReExec(MethodRe, ls[i]).g[1]
                             \o <<".","s","e","t","t","e","r">>)

\* C24: no declaration line of a class gives more than one member chunk, a line under
\* @property no method chunk besides its property chunk, and a setter declaration
\* gives no chunk.
C24_OneChunkPerDeclaration ==
    (fmt = "python" /\ pc = "returned") =>
        LET at == ClassChunkPositions(result)
            decls == ChunkedClassLines(lines)
        IN  \A j \in 1..Len(at) :
               LET stop == IF j < Len(at) THEN at[j + 1] ELSE Len(result) + 1
                   members == SubSeq(result, at[j] + 1, stop - 1)
                   declLines == MemberLines(lines, decls[j], members, 1, 1)
               IN  /\ \A k, l \in 1..Len(declLines) :
                         declLines[k] = declLines[l] => k = l
                   /\ \A k \in 1..Len(declLines) :
                         declLines[k] # 0 => ~SetterDeclaredAt(lines, declLines[k])


\* C25: no method chunk has a name that starts with an underscore, the names __init__,
\* __enter__ and __exit__ aside, and a declaration of one of these three in the body
\* of a class that has a class chunk gives a method chunk like a public method.
C25_PrivateMethodsExcluded ==
    (fmt = "python" /\ pc = "returned") =>
        /\ \A k \in 1..Len(result) :
              (result[k].type = T_method /\ StartsWith(result[k].name, <<"_">>))
                 => result[k].name \in KeptDunders
        /\ \A c \in 1..Len(lines), i \in 1..Len(lines) :
              (/\ ReExec(PyClassRe, lines[c]).ok
               /\ ~StartsWith(ReExec(PyClassRe, lines[c]).g[1], <<"_">>)
               /\ ParentOf(ReExec(PyClassRe, lines[c]).g[2]) # EnumBase
               /\ InBodyOf(lines, i, c)
               /\ ReExec(MethodRe, lines[i]).ok
               /\ ReExec(MethodRe, lines[i]).g[1] \in KeptDunders)
                 => \E k \in 1..Len(result) :
                       /\ result[k].type = T_method
                       /\ result[k].name = ReExec(MethodRe, lines[i]).g[1]
                       /\ result[k].parentName = ReExec(PyClassRe, lines[c]).g[1]

\* A class that declares a private method, __str__, __init__ and a public method was
\* parsed, and its method chunks are those of __init__ and of the public method.
C25_InitKeptHiddenDropped ==
    /\ fmt = "python" /\ pc = "returned"
    /\ \E i \in 1..Len(lines) : lines[i] = PyHidden
    /\ \E i \in 1..Len(lines) : lines[i] = PyStr
    /\ Len(result) = 3
    /\ result[2].type = T_method /\ result[2].name = <<"_","_","i","n","i","t","_","_">>
    /\ result[3].type = T_method /\ result[3].name = <<"b","a","r">>


AtStatic == <<"@","s","t","a","t","i","c","m","e","t","h","o","d">>
AtClass == <<"@","c","l","a","s","s","m","e","t","h","o","d">>

\* The lines of the methods declared in the body of the class of line c of ls.
MethodLinesOf(ls, c) ==
    SelectSeq([i \in 1..Len(ls) |-> i],
              LAMBDA i : MethodDeclaredAt(ls, i) /\ InBodyOf(ls, i, c))

\* C26: a method chunk carries the staticmethod marker exactly when the line right
\* before the declaration is @staticmethod, and the classmethod marker exactly when
\* that line is @classmethod: a decorator further up does not tag the method.
C26_MarkerOfNearestDecorator ==
    (fmt = "python" /\ pc = "returned") =>
        LET at == ClassChunkPositions(result)
            decls == ChunkedClassLines(lines)
        IN  \A j \in 1..Len(at) :
               LET stop == IF j < Len(at) THEN at[j + 1] ELSE Len(result) + 1
                   methods == SelectSeq(SubSeq(result, at[j] + 1, stop - 1),
                                        LAMBDA c : c.type = T_method)
                   mlines == MethodLinesOf(lines, decls[j])
               IN  \A k \in 1..Len(methods) :
                      /\ k <= Len(mlines)
                      /\ Includes(methods[k].content, StaticMark)
                            <=> DecoratedBy(lines, mlines[k], AtStatic)
                      /\ Includes(methods[k].content, ClassMark)
                            <=> DecoratedBy(lines, mlines[k], AtClass)


\* The @property lines of the properties declared in the body of the class of line c.
PropertyLinesOf(ls, c) ==
    SelectSeq([i \in 1..Len(ls) |-> i],
              LAMBDA i : /\ i < Len(ls)
                         /\ (i = c \/ InBodyOf(ls, i, c))
                         /\ Trim(ls[i]) = <<"@","p","r","o","p","e","r","t","y">>
                         /\ ReExec(PropRe, ls[i + 1]).ok)

\* The last line of the body of the class of line c.
LastLineOf(ls, c) == MaxOf({c} \cup {i \in 1..Len(ls) : InBodyOf(ls, i, c)})

\* A setter decorator of name lies in the window after the @property line d of the
\* class of line c: on one of the SetterWindow - 1 lines after d, within the class.
SetterInWindow(ls, c, d, name) ==
    \E l \in (d + 1)..MinOf({d + SetterWindow - 1, LastLineOf(ls, c)}) :
        Includes(ls[l], <<"@">> \o name \o <<".","s","e","t","t","e","r">>)

ReadWrite == <<"[","R","e","a","d","-","W","r","i","t","e","]">>
ReadOnly == <<"[","R","e","a","d","-","O","n","l","y","]">>

\* C27: the property chunks of a class are its property declarations in order, and a
\* property is marked read-write exactly when a setter decorator of its name lies in
\* the window after its @property line, and read-only otherwise.
C27_SetterWindowDecides ==
    (fmt = "python" /\ pc = "returned") =>
        LET at == ClassChunkPositions(result)
            decls == ChunkedClassLines(lines)
        IN  \A j \in 1..Len(at) :
               LET stop == IF j < Len(at) THEN at[j + 1] ELSE Len(result) + 1
                   props == SelectSeq(SubSeq(result, at[j] + 1, stop - 1),
                                      LAMBDA c : c.type = T_property)
                   plines == PropertyLinesOf(lines, decls[j])
               IN  /\ result[at[j]].type = T_class => Len(props) = Len(plines)
                   /\ \A k \in 1..Len(props) :
                         LET inWindow == SetterInWindow(lines, decls[j], plines[k], props[k].name)
                         IN  /\ props[k].name = ReExec(PropRe, lines[plines[k] + 1]).g[1]
                             /\ Includes(props[k].content, ReadWrite) <=> inWindow
                             /\ Includes(props[k].content, ReadOnly) <=> ~inWindow

\* A property was parsed whose setter lies in its class on the first line after the
\* window, and it is read-only.
C27_SetterBeyondWindow ==
    /\ fmt = "python" /\ pc = "returned"
    /\ lines = PySetterAfter(SetterWindow - 2)
    /\ \E k \in 1..Len(result) :
          result[k].type = T_property /\ Includes(result[k].content, ReadOnly)


\* Line o of ls opens a multi-line docstring: trimmed, it starts with an opening marker
\* and is not an opening marker, a text and a closing marker.
OpensMultiLine(ls, o) ==
    /\ o <= Len(ls)
    /\ StartsDocstring(ls[o])
    /\ ~(/\ EndsWith(Trim(ls[o]), Marker)
         /\ Len(Trim(ls[o])) > 3 + (IF StartsWith(Trim(ls[o]), RawMarker) THEN 4 ELSE 3))

\* The first line after line o of ls that contains the closing marker, the line after
\* the last line when there is none.
ClosingLine(ls, o) ==
    MinOf({l \in (o + 1)..Len(ls) : Includes(ls[l], Marker)} \cup {Len(ls) + 1})

\* The body of the multi-line docstring opened on line o of ls: the text after the
\* opening marker, the lines up to the closing line, and the part of the closing line
\* before the marker, surrounding whitespace removed.
MultiLineBody(ls, o) ==
    LET opening == Trim(ls[o])
        close == ClosingLine(ls, o)
    IN  Trim(Join(<<SubSeq(opening, (IF StartsWith(opening, RawMarker) THEN 5 ELSE 4),
                           Len(opening))>>
                  \o SubSeq(ls, o + 1, close - 1)
                  \o (IF close <= Len(ls)
                      THEN <<SubSeq(ls[close], 1, IndexOf(ls[close], Marker))>>
                      ELSE <<>>),
                  NL))

\* C28: the body of a multi-line docstring opened on the line after a class or method
\* declaration is the text after the opening marker, every line up to the first line
\* with the closing marker and the part of that line before the marker, surrounding
\* whitespace removed; without a closing marker it runs to the last line of the file,
\* and the end index is the closing line, or the last line, never a line beyond it.
C28_MultiLineBody ==
    (fmt = "python" /\ pc = "returned") =>
        /\ \A k \in 1..Len(classes) :
              OpensMultiLine(lines, classes[k].lineNumber + 2) =>
                 LET o == classes[k].lineNumber + 2
                 IN  /\ classes[k].docstring = MultiLineBody(lines, o)
                     /\ extractDocstringEnd(lines, o - 1) = MinOf({ClosingLine(lines, o), Len(lines)}) - 1
                     /\ extractDocstringEnd(lines, o - 1) <= Len(lines) - 1
        /\ LET at == ClassChunkPositions(result)
               decls == ChunkedClassLines(lines)
           IN  \A j \in 1..Len(at) :
                  LET stop == IF j < Len(at) THEN at[j + 1] ELSE Len(result) + 1
                      methods == SelectSeq(SubSeq(result, at[j] + 1, stop - 1),
                                           LAMBDA c : c.type = T_method)
                      mlines == MethodLinesOf(lines, decls[j])
                  IN  \A k \in 1..Len(methods) :
                         (k <= Len(mlines) /\ OpensMultiLine(lines, mlines[k] + 1)
                          /\ MultiLineBody(lines, mlines[k] + 1) # <<>>)
                            => EndsWith(methods[k].content,
                                        NL \o NL \o MultiLineBody(lines, mlines[k] + 1))

\* A class and a method with closed multi-line docstrings were parsed: the class body
\* ends before the closing marker of a line with text after it, the method body at a
\* closing line of the marker alone.
C28_ClosedBodiesReturned ==
    /\ fmt = "python" /\ pc = "returned"
    /\ Len(lines) = 9 /\ lines[4] = PyCloseTail /\ lines[8] = PyCloseBare
    /\ classes[1].docstring = <<"O","p","e","n">> \o NL \o PyMore \o NL \o <<" "," "," "," ","e","n","d",".">>
    /\ \E k \in 1..Len(result) :
          /\ result[k].type = T_method
          /\ EndsWith(result[k].content, <<"O","p","e","n">> \o NL \o PyMore)


\* A quoted block starts on line o of ls.
BlockStartsAt(ls, o) == o <= Len(ls) /\ StartsDocstring(ls[o])

\* The last line of the text of a chunk.
LastLine(content) == Split(content)[Len(Split(content))]

\* The text of a member chunk ends with its structural lines: no docstring follows them.
NoDocstringIn(content) ==
    \/ StartsWith(LastLine(content), <<"S","i","g","n","a","t","u","r","e",":"," ">>)
    \/ StartsWith(LastLine(content), <<"T","y","p","e",":"," ">>)

\* C29: a class, method or property whose declaration is not directly followed by a
\* line that starts a quoted block has an empty docstring and still has its chunk: a
\* block that starts further down is not attributed to it.
C29_DocstringOnlyFromNextLine ==
    (fmt = "python" /\ pc = "returned") =>
        /\ \A k \in 1..Len(classes) :
              ~BlockStartsAt(lines, classes[k].lineNumber + 2) => classes[k].docstring = <<>>
        /\ \A c \in 1..Len(lines) :
              (ReExec(PyClassRe, lines[c]).ok /\ ~BlockStartsAt(lines, c + 1))
                 => \E k \in 1..Len(result) :
                       /\ result[k].type \in {T_class, T_enum}
                       /\ result[k].name = ReExec(PyClassRe, lines[c]).g[1]
        /\ LET at == ClassChunkPositions(result)
               decls == ChunkedClassLines(lines)
           IN  \A j \in 1..Len(at) :
                  LET stop == IF j < Len(at) THEN at[j + 1] ELSE Len(result) + 1
                      members == SubSeq(result, at[j] + 1, stop - 1)
                      methods == SelectSeq(members, LAMBDA c : c.type = T_method)
                      props == SelectSeq(members, LAMBDA c : c.type = T_property)
                      mlines == MethodLinesOf(lines, decls[j])
                      plines == PropertyLinesOf(lines, decls[j])
                  IN  result[at[j]].type = T_class =>
                         /\ Len(methods) = Len(mlines)
                         /\ Len(props) = Len(plines)
                         /\ \A k \in 1..Len(mlines) :
                               ~BlockStartsAt(lines, mlines[k] + 1)
                                  => NoDocstringIn(methods[k].content)
                         /\ \A k \in 1..Len(plines) :
                               ~BlockStartsAt(lines, plines[k] + 2)
                                  => NoDocstringIn(props[k].content)


\* The number of marker characters the line l starts with.
LeadingMarkers(l) ==
    MaxOf({n \in 0..Len(l) : \A k \in 1..n : l[k] = "#"})

\* The line l is a heading line: one to four markers, whitespace, and text up to the
\* end of the line.
HeadingLine(l) ==
    LET n == LeadingMarkers(l)
    IN  /\ n \in 1..4
        /\ \E m \in 1..(Len(l) - n - 1) :
              /\ \A k \in (n + 1)..(n + m) : l[k] \in WS
              /\ \A k \in (n + m + 1)..Len(l) : l[k] \notin LineTerm

\* The heading lines of ls, in order.
HeadingLines(ls) == SelectSeq([i \in 1..Len(ls) |-> i], LAMBDA i : HeadingLine(ls[i]))

\* The lines between the heading on line h of ls and the next heading line or the end,
\* joined, surrounding whitespace removed.
BodyAfter(ls, h) ==
    LET later == {i \in (h + 1)..Len(ls) : HeadingLine(ls[i])}
        stop == IF later = {} THEN Len(ls) + 1 ELSE MinOf(later)
    IN  Trim(Join(SubSeq(ls, h + 1, stop - 1), NL))

\* The title of the heading line l.
TitleOf(l) == Trim(SubSeq(l, LeadingMarkers(l) + 1, Len(l)))

\* C30: the markdown chunks are, in order, the heading lines whose body is long enough
\* to be emitted, and the body of each is the lines between its heading and the next
\* heading line or the end of the text, surrounding whitespace removed: lines before
\* the first heading are in no chunk, and a line of five or more markers is a body line.
C30_SectionsBetweenHeadings ==
    (fmt = "markdown" /\ pc = "returned") =>
        LET ls == Split(text)
            emitted == SelectSeq(HeadingLines(ls),
                                 LAMBDA h : Len(BodyAfter(ls, h)) > MinSectionLen)
        IN  /\ Len(result) = Len(emitted)
            /\ \A k \in 1..Len(emitted) :
                  /\ result[k].name = TitleOf(ls[emitted[k]])
                  /\ result[k].content = <<"#"," ">> \o TitleOf(ls[emitted[k]]) \o NL \o NL
                                            \o BodyAfter(ls, emitted[k])

\* A document was parsed that starts with a line before its first heading, has a line
\* of five markers in the body of its first section and a heading of four markers.
C30_DeepLineInBody ==
    /\ fmt = "markdown" /\ pc = "returned"
    /\ Split(text) = <<MdLong, MdIntro, MdDeep, MdLong, MdSub, MdLong, MdNoSpace>>
    /\ Len(result) = 2
    /\ result[1].content = MdIntro \o NL \o NL \o MdDeep \o NL \o MdLong
    /\ result[2].content = <<"#"," ","S","u","b">> \o NL \o NL \o MdLong \o NL \o MdNoSpace


-----------------------------------------------------------------------------
(* The type of a markdown section.                                         *)

\* The title holds the lower-case word w, in any letter case.
TitleHas(title, w) ==
    \E a \in 1..(Len(title) - Len(w) + 1) : ToLowerCase(SubSeq(title, a, a + Len(w) - 1)) = w

HttpVerbs == {<<"g","e","t">>, <<"p","o","s","t">>, <<"p","u","t">>,
              <<"d","e","l","e","t","e">>, <<"p","a","t","c","h">>}

\* The body starts with an HTTP verb, in any letter case, white space and a path.
StartsWithRequest(body) ==
    \E v \in HttpVerbs, n \in 1..Len(body) :
        /\ Len(body) >= Len(v) + n + 1
        /\ ToLowerCase(SubSeq(body, 1, Len(v))) = v
        /\ \A j \in (Len(v) + 1)..(Len(v) + n) : body[j] \in WS
        /\ body[Len(v) + n + 1] = "/"

\* The body starts with the word class, white space and a name.
StartsWithClassDecl(body) ==
    \E n \in 1..Len(body) :
        /\ Len(body) >= 5 + n + 1
        /\ SubSeq(body, 1, 5) = T_class
        /\ \A j \in 6..(5 + n) : body[j] \in WS
        /\ body[5 + n + 1] \in WordCh

\* The body of the section a markdown chunk was made of: the content after the
\* heading line and the empty line.
SectionBodyOf(chunk) == SliceFrom(chunk.content, Len(chunk.name) + 4)

\* The first of the five rules that applies.
TypeByPriority(title, body) ==
    CASE TitleHas(title, <<"e","n","d","p","o","i","n","t">>) \/ StartsWithRequest(body)
            -> T_api_endpoint
      [] TitleHas(title, T_example) \/ TitleHas(title, <<"u","s","a","g","e">>) -> T_example
      [] TitleHas(title, T_class) \/ StartsWithClassDecl(body) -> T_class
      [] TitleHas(title, T_function) \/ TitleHas(title, T_method) -> T_function
      [] OTHER -> T_guide

\* C31: every chunk of a markdown document has the type of the first rule, in the
\* order api-endpoint, example, class, function, that its title or the start of its
\* body satisfies, and the type guide when none does.
C31_TypeByPriority ==
    (fmt = "markdown" /\ pc = "returned") =>
        \A k \in 1..Len(result) :
            result[k].type = TypeByPriority(result[k].name, SectionBodyOf(result[k]))

\* A document was returned in which a usage title over a request line became an
\* api-endpoint and a method title over a class declaration became a class.
C31_EarlierRuleWins ==
    /\ fmt = "markdown" /\ pc = "returned"
    /\ \E k \in 1..Len(result) :
          /\ result[k].type = T_api_endpoint
          /\ TitleHas(result[k].name, <<"u","s","a","g","e">>)
          /\ StartsWithRequest(SectionBodyOf(result[k]))
    /\ \E k \in 1..Len(result) :
          /\ result[k].type = T_class
          /\ TitleHas(result[k].name, T_method)
          /\ StartsWithClassDecl(SectionBodyOf(result[k]))

-----------------------------------------------------------------------------
(* The slug of a markdown chunk id.                                        *)

\* The part of a markdown chunk's id between its type and its index.
SlugOf(chunk, index) ==
    Slice(chunk.id, Len(chunk.source) + 1 + Len(chunk.type) + 1,
          Len(chunk.id) - 1 - Len(NatToString(index)))

\* Lower-case letters, digits and single separators, none at either end, at most
\* SlugMax characters.
SlugWellFormed(slug) ==
    /\ \A i \in 1..Len(slug) : slug[i] \in AlNum \cup {"-"}
    /\ \A i \in 1..(Len(slug) - 1) : ~(slug[i] = "-" /\ slug[i + 1] = "-")
    /\ slug # <<>> => (slug[1] # "-" /\ slug[Len(slug)] # "-")
    /\ Len(slug) <= SlugMax

\* C32: the slug in the id of every markdown chunk holds only lower-case letters,
\* digits and the separator, has no two separators in a row and none at either end,
\* and is at most 64 characters long, also when the title is longer.
C32_SlugWellFormed ==
    (fmt = "markdown" /\ pc = "returned") =>
        \A k \in 1..Len(result) :
            /\ SlugOf(result[k], k - 1) = sanitizeName(result[k].name)
            /\ SlugWellFormed(SlugOf(result[k], k - 1))

-----------------------------------------------------------------------------
(* The description of a command-list entry.                                *)

\* The description in a command-list chunk: the content after its header line, its
\* kind line and the empty line.
DescriptionOf(chunk) ==
    SliceFrom(chunk.content,
              2 + Len(chunk.name) + 1
              + 6 + Len(IF chunk.type = CONSOLE_COMMAND THEN L_ConsoleCommand
                        ELSE L_ConsoleVariable) + 1
              + 1)

\* The lines l, each without the white space around it.
Trimmed(ls) == [k \in 1..Len(ls) |-> Trim(ls[k])]

\* C33: the description of the k-th command-list chunk is made of the description
\* lines between the k-th entry heading and the next entry heading or the end of the
\* text, in their order; lines before the first entry heading are in no description.
C33_DescriptionOfOwnLines ==
    (fmt = "console" /\ pc = "returned") =>
        LET ls == Split(text)
            hs == MatchingLines(ls, ConHeaderRe)
        IN  /\ Len(result) = Len(hs)
            /\ \A k \in 1..Len(hs) :
                  DescriptionOf(result[k]) = Join(Trimmed(DescriptionLines(ls, hs[k])), NL)

\* A command list was parsed that has a text line before the first entry heading, two
\* description lines under the first entry and two other ones under the second.
C33_TwoEntriesDescribed ==
    /\ fmt = "console" /\ pc = "returned"
    /\ Split(text)[1] = ConText
    /\ Len(result) = 2
    /\ DescriptionOf(result[1]) = ConText \o NL \o ConOther
    /\ DescriptionOf(result[2]) = ConOther \o NL \o Trim(ConIndented)

-----------------------------------------------------------------------------
(* Optional fields in the written form.                                    *)

OptionalKeys == {"parentName", "signature", "version"}

\* C34: in the written form of the chunks a recognizer returned, no optional field is
\* the empty string; a class, enum, markdown or command-list chunk has no parentName
\* and no signature; no chunk has a version when the run had no version tag.
C34_AbsentNotEmpty ==
    pc = "returned" =>
        \A k \in 1..Len(result) :
            LET json == Serialize(result)[k]
            IN  /\ \A key \in OptionalKeys \cap DOMAIN json : json[key] # <<>>
                /\ (fmt \in {"markdown", "console"} \/ result[k].type \in {T_class, T_enum})
                      => ("parentName" \notin DOMAIN json /\ "signature" \notin DOMAIN json)
                /\ version = Undefined => "version" \notin DOMAIN json

\* A stub file was parsed without a version tag into a class chunk, written without
\* optional fields, and a method chunk, written with its parentName and signature.
C34_ClassAndMethodWritten ==
    /\ fmt = "python" /\ pc = "returned" /\ version = Undefined
    /\ \E k \in 1..Len(result) :
          /\ result[k].type = T_class
          /\ OptionalKeys \cap DOMAIN Serialize(result)[k] = {}
    /\ \E k \in 1..Len(result) :
          /\ result[k].type = T_method
          /\ OptionalKeys \cap DOMAIN Serialize(result)[k] = {"parentName", "signature"}

-----------------------------------------------------------------------------
(* The empty-string sentinel of the table.                                 *)

\* The value a field of a chunk has in the table: the empty string when absent.
SentinelOf(value) == IF value = Undefined THEN <<>> ELSE value

\* C35: a chunk without a parentName or version is stored with the empty string
\* in that field and search returns it with the field absent again; a non-empty
\* parentName or version is stored and returned as the same string.
C35_SentinelRoundTrips ==
    \A c \in EmbeddedChunks :
        /\ \A k \in 1..Len(storeRows) :
              storeRows[k].id = c.id =>
                  /\ storeRows[k].parentName = SentinelOf(c.parentName)
                  /\ storeRows[k].version = SentinelOf(c.version)
        /\ outcome.call = "search" =>
              \A k \in 1..Len(outcome.results) :
                  outcome.results[k].chunk.id = c.id =>
                      /\ outcome.results[k].chunk.parentName = c.parentName
                      /\ outcome.results[k].chunk.version = c.version

\* One search returned a chunk with neither field and a chunk with both.
C35_BothKindsReturned ==
    /\ outcome.call = "search"
    /\ Len(outcome.results) = 2
    /\ \E j, k \in 1..2 :
          /\ outcome.results[j].chunk.parentName = Undefined
          /\ outcome.results[j].chunk.version = Undefined
          /\ outcome.results[j].chunk.id = <<"t",":","g">>
          /\ outcome.results[k].chunk.parentName = <<"A">>
          /\ outcome.results[k].chunk.version = V56
          /\ outcome.results[k].chunk.id = <<"u",":","m">>

-----------------------------------------------------------------------------
(* The embedder is loaded once.                                            *)

\* C36: under any interleaving of concurrent calls the pipeline is started at most
\* once; a call that arrives while the initialization is pending waits on that
\* same promise; all calls that obtain an embedder obtain the same instance.
C36_PipelineStartedOnce ==
    /\ Len(pipelines) <= 1
    /\ \A c \in Callers :
          calls[c].seen = "pending" =>
              /\ calls[c].promise = initPromise
              /\ pipelines[initPromise] = "pending" => calls[c].pc = "shared"
    /\ \A c, d \in Callers :
          calls[c].embedder # 0 /\ calls[d].embedder # 0 =>
              calls[c].embedder = calls[d].embedder

\* The call that started the pipeline and a call that arrived while it was
\* pending both hold the embedder.
C36_StarterAndWaiterShare ==
    \E c, d \in Callers :
        /\ calls[c].seen = "null" /\ calls[c].embedder = 1
        /\ calls[d].seen = "pending" /\ calls[d].embedder = 1

\* C37: once the first initialization has failed, embedderInstance stays null, the
\* rejected promise stays in initPromise, no new pipeline is started, and every
\* call, also one made after the failure, fails with the error of that rejection.
C37_FailureIsPermanent ==
    (Len(pipelines) >= 1 /\ pipelines[1] = "rejected") =>
        /\ Len(pipelines) = 1
        /\ embedderInstance = 0
        /\ initPromise = 1
        /\ \A c \in Callers :
              /\ calls[c].pc \notin {"ready", "done"}
              /\ calls[c].pc = "failed" => calls[c].error = PipelineError(1)
              /\ calls[c].seen = "rejected" =>
                    calls[c].promise = 1 /\ calls[c].pc \in {"shared", "failed"}

\* The starting call failed, and a call made after the rejection failed with the
\* same error.
C37_LaterCallFailsToo ==
    \E c, d \in Callers :
        /\ calls[c].seen = "null" /\ calls[c].pc = "failed"
        /\ calls[d].seen = "rejected" /\ calls[d].pc = "failed"
        /\ calls[d].error = calls[c].error

-----------------------------------------------------------------------------
(* The store before a successful initialize().                             *)

\* C38: while no call of initialize() has resolved, search and getStats throw
\* 'VectorStore not initialized' and do not query the table.
C38_NotInitializedError ==
    (~initialized /\ outcome.call \in {"search", "getStats"}) =>
        /\ outcome.error = NotInitialized
        /\ ~outcome.queried
        /\ outcome.results = <<>>

\* getStats was called after an initialize() whose openTable was rejected.
C38_StatsAfterFailedOpen ==
    /\ ~initialized
    /\ db = "connected"
    /\ outcome.call = "getStats"
    /\ outcome.error = NotInitialized

-----------------------------------------------------------------------------
(* Rows that search skips.                                                 *)

\* The rows the vector query of the last tool call returned.
RawResults == VectorQuery(storeRows, toolResult.limit, toolResult.sourceFilter)

\* A row that passes the record schema and whose origin and type are known.
RowValid(row) ==
    /\ LanceDBQueryResultValid(row)
    /\ row.source \in DOC_SOURCES
    /\ row.type \in DOC_TYPES

\* C39: the results of search are exactly the valid raw rows in the order the store
\* returned them, never more than the raw rows, and totalResults of the search
\* tools is the length of the results list they return.
C39_ExactlyValidRows ==
    toolResult.tool # "none" =>
        LET valid == SelectSeq(RawResults, RowValid)
        IN  /\ Len(toolResult.found) = Len(valid)
            /\ \A k \in 1..Len(valid) : toolResult.found[k] = SearchResultOf(valid[k])
            /\ Len(toolResult.found) <= Len(RawResults)
            /\ Len(toolResult.output.results) = Len(toolResult.found)
            /\ toolResult.output.totalResults = Len(toolResult.output.results)

\* A tool returned one result for two raw rows, the first of which was skipped.
C39_InvalidRowSkipped ==
    /\ toolResult.tool = "searchBySource"
    /\ Len(RawResults) = 2
    /\ ~RowValid(RawResults[1])
    /\ toolResult.output.totalResults = 1
    /\ toolResult.found[1].chunk.id = RawResults[2].id

====
